---- MODULE Spec2Model ----
(***************************************************************************)
(* Screen2Deck: job orchestration core.                                    *)
(*                                                                         *)
(* Part I   idempotent execution   (backend/app/core/idempotency.py)       *)
(* Part II  job storage            (backend/app/core/job_storage.py)       *)
(* Part III upload pipeline        (backend/app/main.py, app/tasks.py)     *)
(* Part IV  find_by_image_hash     (backend/app/core/job_storage.py)       *)
(* Part V   lookups by image hash  (main.py, services/ocr_service.py)      *)
(* Part VI  Vision fallback gate   (backend/app/core/circuit_breaker.py)   *)
(* Part VII circuit breaker        (backend/app/core/resilience.py)        *)
(* Part VIII rate limiting         (core/rate_limit.py, auth_middleware.py)*)
(* Part IX  original rate limit    (backend/app/main_original.py)          *)
(* Part X   WebSocket progress     (backend/app/api/websocket.py)          *)
(* Part XI  key expiry, erasure    (core/job_storage.py, core/retention.py)*)
(* Part XII deletion endpoint      (backend/app/routers/gdpr.py)           *)
(* Part XIII cache manager         (backend/app/cache_manager.py)          *)
(* Part XIV Vision provider call   (pipeline/ocr.py, vision_fallback.py)   *)
(* Part XV  deck parsing         (backend/app/services/ocr_service.py)     *)
(* Part XVI deck export          (backend/app/exporters/tappedout.py)      *)
(* Part XVII gate settings       (backend/app/config.py)                   *)
(* Part XVIII rate-limit paths   (backend/app/core/rate_limit.py)          *)
(* Part XIX in-process map size  (backend/app/cache_manager.py)            *)
(* Part XX  bulkhead             (backend/app/core/resilience.py)          *)
(* Part XXI connection maps      (backend/app/api/websocket.py)            *)
(*                                                                         *)
(* In Parts II to V Redis keys with a TTL are modelled untimed: a key that *)
(* carries a TTL may disappear at any step (the *Expire actions).  Part XI *)
(* keeps the expiry time of each key.  The breakers, the rate limiters and *)
(* Part XI read a clock that counts whole seconds (Tick).                  *)
(***************************************************************************)
EXTENDS Integers, Sequences, FiniteSets, TLC

\* ------------------------------------------------------------------ bounds
NumCallers == 2
MaxDay     == 1
NumResults == 1

Callers == 1..NumCallers
Days    == 0..MaxDay
Results == 1..NumResults

\* the absent lock token / absent caller
NoOwner == 0

VARIABLES
    \* ---- deployment
    envUseRedis,    \* the USE_REDIS environment variable: "true", "false" or "unset"
    \* ---- Part I: idempotency.py
    today,          \* datetime.utcnow() date, used as the scryfall_snapshot default
    lockOwner,      \* redis key "<K>:lock": the token holder, NoOwner when the key is absent
    resultStore,    \* redis key "<K>:result": {} when absent, {json} when present
    cpc,            \* position of each idempotent_ocr call (a call runs once)
    ckey,           \* op.key of the call
    chaslock,       \* op.lock is not None
    ctoken,         \* op.lock.local.token is set (acquire() returned True)
    cran,           \* the call has invoked ocr_function
    cret,           \* what the call returned to its caller
    lockExpired     \* history: some lock key was lost to its auto-release timeout

idemVars == <<today, lockOwner, resultStore, cpc, ckey, chaslock, ctoken,
              cran, cret, lockExpired>>

\* ---- Part II: job_storage.py
VARIABLES
    jobs,           \* job:<id> -> the stored JSON (NoJob when the key is absent)
    idxHash,        \* idx:hash:<h> -> set of job ids ({} when the key is absent)
    idxHashTTL,     \* idx:hash:<h> carries a TTL
    idxUser,        \* idx:user:<u> -> members of the sorted set
    idxUserTTL,     \* idx:user:<u> carries a TTL
    jobExpired      \* history: job:<id> has been removed by its TTL

storeVars == <<jobs, idxHash, idxHashTTL, idxUser, idxUserTTL, jobExpired>>

\* ---- Part III: main.py, tasks.py
VARIABLES
    upc,            \* position of each upload_image request (a request runs once)
    uhash,          \* image_hash of the request
    uuser,          \* user_id of the request (NoUser when token_data is None)
    uscan,          \* find_by_image_hash: job ids still to be looked at
    ustep,          \* which update_job call the request is at (0 before create_job)
    uread,          \* update_job: the job_data read at line 177
    uresp,          \* the response of the request
    usawDone,       \* history: a completed job of this image was stored when the request started
    tpc,            \* position of each process_ocr_task run
    tjob,           \* job_id argument of the task
    tstep           \* which update_job_status call the task has made

upVars == <<upc, uhash, uuser, uscan, ustep, uread, uresp, usawDone>>

taskVars == <<tpc, tjob, tstep>>

\* ---- Part II: JobStorage calls
VARIABLES
    kpc,            \* position of each JobStorage call (a call runs once)
    kop,            \* the call and its arguments
    kread,          \* update_job: the job_data read at line 177
    kret            \* the value the call returned ("none" while it runs)

clientVars == <<kpc, kop, kread, kret>>

\* ---- Part IV: find_by_image_hash
VARIABLES
    jobCreatedAt,   \* created_at of job:<id> (0 when the key is absent)
    fpc,            \* position of the find_by_image_hash call
    fhash,          \* its image_hash argument
    fscan,          \* members of the index set still to be iterated
    fret            \* the job id it returned (0 is None)

findVars == <<jobCreatedAt, fpc, fhash, fscan, fret>>

\* ---- Part V: lookups keyed by the image hash (main.py, ocr_service.py, cache_manager.py)
VARIABLES
    pipelineConfig, \* the pipeline settings the running deployment read from its environment
    jobConfig,      \* history: the settings in effect when job <id> was processed ("none": no such job)
    ocrCache,       \* cache key ocr:<image_hash>: {} when absent, {result} when present
    served          \* the outcome of the last submission

cfgVars == <<pipelineConfig, jobConfig, ocrCache, served>>

\* ---- the wall clock read by time.time() and datetime.utcnow()
VARIABLES
    now,            \* seconds since the epoch
    ticks           \* how many times the clock has advanced

clockVars == <<now, ticks>>

\* ---- Part VI: VisionFallbackCircuitBreaker (core/circuit_breaker.py)
VARIABLES
    ENABLE_VISION_FALLBACK,         \* settings.ENABLE_VISION_FALLBACK of the deployment
    vision_state,                   \* self.state
    failure_count,                  \* self.failure_count
    circuit_opened_at,              \* self.circuit_opened_at (NoTime is None)
    fallback_history,               \* self.fallback_history: <<timestamp, used_fallback>> pairs
    current_confidence_threshold,   \* in hundredths
    current_min_lines,
    vision_ret,                     \* what the last should_use_fallback returned ("none" before any)
    vision_streak,                  \* history: failures recorded in closed since the last recorded success
    vision_probe_failed             \* history: the circuit is open because a failure was recorded in half_open

visionVars == <<ENABLE_VISION_FALLBACK, vision_state, failure_count, circuit_opened_at,
                fallback_history, current_confidence_threshold, current_min_lines,
                vision_ret, vision_streak, vision_probe_failed>>

\* ---- Part VII: resilience.CircuitBreaker (core/resilience.py)
VARIABLES
    cb_state,           \* self.state
    failures,           \* self.failures
    successes,          \* self.successes
    last_failure_time,  \* self.last_failure_time (NoTime is None)
    cb_ret              \* outcome of the last call: "none", "rejected", "returned", "raised"

cbVars == <<cb_state, failures, successes, last_failure_time, cb_ret>>

\* ---- Part VIII: rate limiting of one client address (core/rate_limit.py, core/auth_middleware.py)
VARIABLES
    rl_zset,        \* Redis sorted set s2d_export:<ip>: its scores, oldest first
    memory_storage, \* memory_storage[ip]: the deque of request times
    rate_limits,    \* AuthMiddleware.rate_limits[ip]["requests"]
    last_check,     \* the last decision: which limiter, and whether it let the request through
    allowed_at,     \* history: for each limiter, the times of the requests it let through
    num_requests    \* requests the client has sent

rateVars == <<rl_zset, memory_storage, rate_limits, last_check, allowed_at, num_requests>>

\* ---- Part IX: the per-IP limiter of the original upload endpoint (main_original.py)
VARIABLES
    last_req,       \* _last_req: client IP -> time of its last accepted request (NoTime: no entry)
    orig_status,    \* HTTP status the limiter gave the last request (0 before any)
    orig_ip,        \* the client IP of the last request (0 before any)
    prev_req_at,    \* history: per client IP, the time its previous request arrived
    orig_requests   \* requests received so far

origVars == <<last_req, orig_status, orig_ip, prev_req_at, orig_requests>>

\* ---- Part X: WebSocket subscriptions to one job (api/websocket.py)
VARIABLES
    ws_pc,              \* per connection: position of websocket_endpoint
    active_connections, \* manager.active_connections[job_id]
    connection_info,    \* keys of manager.connection_info
    frames,             \* per connection: the frames it has received, oldest first
    ws_pending,         \* _send_safe tasks created by notify_job_update, not yet run
    ws_store,           \* Redis key job:<id>: who wrote it last, and the status it holds
    ws_memory,          \* cache_manager.memory_cache["job:<id>"]
    writer_pos,         \* how many updates the job writer has produced
    writer_at_connect   \* history: writer_pos when connect read the status

wsVars == <<ws_pc, active_connections, connection_info, frames, ws_pending,
            ws_store, ws_memory, writer_pos, writer_at_connect>>

\* ---- Part XI: job keys with their expiry times, and per-user deletion
\*      (core/job_storage.py, core/retention.py)
VARIABLES
    rec,            \* job:<id> -> created_at, expiry time, image_hash, user_id
    hash_idx,       \* idx:hash:<h> -> members and expiry time
    user_idx,       \* idx:user:<u> -> members and expiry time
    del_ret         \* what the last delete_user_data returned

retVars == <<rec, hash_idx, user_idx, del_ret>>

\* ---- Part XII: DELETE /api/gdpr/data/{identifier} (routers/gdpr.py)
VARIABLES
    gd_identifier,  \* the identifier of the last delete_data request
    gd_status       \* the HTTP status it was answered with (0 before any request)

gdprVars == <<gd_identifier, gd_status>>

\* ---- Part XIII: CacheManager get / set (cache_manager.py)
VARIABLES
    redis_up,       \* the Redis server answers
    cm_enabled,     \* self.enabled
    cm_redis,       \* Redis: key -> pickled value ("none" when absent)
    memory_cache,   \* self.memory_cache, in insertion order
    cm_ret          \* what the last get / set returned

cmVars == <<redis_up, cm_enabled, cm_redis, memory_cache, cm_ret>>

\* ---- Part XIV: calls to the Vision provider (pipeline/ocr.py, pipeline/vision_fallback.py)
VARIABLES
    vf_img,         \* the image the pipeline is working on
    vf_call,        \* the last fallback call: function, credentials, provider answers
    vf_ret          \* what that call returned or raised

vfVars == <<vf_img, vf_call, vf_ret>>

\* ---- Part XV: deck parsing (services/ocr_service.py)
VARIABLES
    pd_spans,       \* the spans handed to the last _parse_cards call
    pd_ret          \* the DeckSections it returned

parseVars == <<pd_spans, pd_ret>>

\* ---- Part XVI: deck export (exporters/tappedout.py)
VARIABLES
    ex_deck,        \* the deck handed to the last export_tappedout call
    ex_ret          \* the text it returned, as its lines

exportVars == <<ex_deck, ex_ret>>

\* ---- Part XVII: the settings the Vision gate is built from (config.py)
VARIABLES
    settings_OCR_MIN_CONF,      \* settings.OCR_MIN_CONF, in hundredths
    settings_OCR_MIN_LINES      \* settings.OCR_MIN_LINES

settingsVars == <<settings_OCR_MIN_CONF, settings_OCR_MIN_LINES>>

\* ---- Part XVIII: the two paths of RateLimiter side by side (core/rate_limit.py)
VARIABLES
    path_zset,          \* the scores of the sorted set rate_limit:<ip> in Redis
    path_times,         \* memory_storage[ip]
    path_redis,         \* what _check_redis returned for the last request
    path_memory,        \* what _check_memory returned for the same request
    path_last,          \* the time of the last request (NoTime before any)
    path_count          \* requests sent so far

pathVars == <<path_zset, path_times, path_redis, path_memory, path_last, path_count>>

\* ---- Part XIX: the size of CacheManager's in-process map (cache_manager.py)
VARIABLES
    map_len,        \* len(self.memory_cache)
    map_op          \* the last operation on the map ("none" before any)

mapVars == <<map_len, map_op>>

\* ---- Part XX: Bulkhead (core/resilience.py)
VARIABLES
    bh_pc,          \* where each caller of execute is: "idle", "waiting", "running"
    bh_value,       \* self.semaphore._value
    queue_size,     \* self.queue_size
    active,         \* self.active
    bh_ret,         \* how the last finished call ended ("none" before any)
    bh_calls        \* calls of execute so far

bulkheadVars == <<bh_pc, bh_value, queue_size, active, bh_ret, bh_calls>>

\* ---- Part XXI: the maps of ConnectionManager (api/websocket.py)
VARIABLES
    job_sockets,        \* self.active_connections: job_id -> set of websockets
    socket_info,        \* self.connection_info: websocket -> its job_id
    socket_pc,          \* each websocket: "new", "open", "gone", "returned", "closed"
    send_tasks,         \* the _send_safe tasks that have not run yet, by websocket
    watched_state,      \* the state the writer of each job has stored
    manager_ret         \* the last operation on the maps

managerVars == <<job_sockets, socket_info, socket_pc, send_tasks, watched_state, manager_ret>>

\* the parts after Part III, and for each of them the other ones
laterVars == <<findVars, cfgVars, clockVars, visionVars, cbVars, rateVars, origVars, wsVars, retVars, gdprVars, cmVars, vfVars, parseVars, exportVars, settingsVars, pathVars, mapVars, bulkheadVars, managerVars>>

notFindVars == <<cfgVars, clockVars, visionVars, cbVars, rateVars, origVars, wsVars, retVars, gdprVars, cmVars, vfVars, parseVars, exportVars, settingsVars, pathVars, mapVars, bulkheadVars, managerVars>>

notCfgVars == <<findVars, clockVars, visionVars, cbVars, rateVars, origVars, wsVars, retVars, gdprVars, cmVars, vfVars, parseVars, exportVars, settingsVars, pathVars, mapVars, bulkheadVars, managerVars>>

notClockVars == <<findVars, cfgVars, visionVars, cbVars, rateVars, origVars, wsVars, retVars, gdprVars, cmVars, vfVars, parseVars, exportVars, settingsVars, pathVars, mapVars, bulkheadVars, managerVars>>

notVisionVars == <<findVars, cfgVars, clockVars, cbVars, rateVars, origVars, wsVars, retVars, gdprVars, cmVars, vfVars, parseVars, exportVars, settingsVars, pathVars, mapVars, bulkheadVars, managerVars>>

notCbVars == <<findVars, cfgVars, clockVars, visionVars, rateVars, origVars, wsVars, retVars, gdprVars, cmVars, vfVars, parseVars, exportVars, settingsVars, pathVars, mapVars, bulkheadVars, managerVars>>

notRateVars == <<findVars, cfgVars, clockVars, visionVars, cbVars, origVars, wsVars, retVars, gdprVars, cmVars, vfVars, parseVars, exportVars, settingsVars, pathVars, mapVars, bulkheadVars, managerVars>>

notOrigVars == <<findVars, cfgVars, clockVars, visionVars, cbVars, rateVars, wsVars, retVars, gdprVars, cmVars, vfVars, parseVars, exportVars, settingsVars, pathVars, mapVars, bulkheadVars, managerVars>>

notWsVars == <<findVars, cfgVars, clockVars, visionVars, cbVars, rateVars, origVars, retVars, gdprVars, cmVars, vfVars, parseVars, exportVars, settingsVars, pathVars, mapVars, bulkheadVars, managerVars>>

notRetVars == <<findVars, cfgVars, clockVars, visionVars, cbVars, rateVars, origVars, wsVars, gdprVars, cmVars, vfVars, parseVars, exportVars, settingsVars, pathVars, mapVars, bulkheadVars, managerVars>>

notGdprVars == <<findVars, cfgVars, clockVars, visionVars, cbVars, rateVars, origVars, wsVars, retVars, cmVars, vfVars, parseVars, exportVars, settingsVars, pathVars, mapVars, bulkheadVars, managerVars>>

notCmVars == <<findVars, cfgVars, clockVars, visionVars, cbVars, rateVars, origVars, wsVars, retVars, gdprVars, vfVars, parseVars, exportVars, settingsVars, pathVars, mapVars, bulkheadVars, managerVars>>

notVfVars == <<findVars, cfgVars, clockVars, visionVars, cbVars, rateVars, origVars, wsVars, retVars, gdprVars, cmVars, parseVars, exportVars, settingsVars, pathVars, mapVars, bulkheadVars, managerVars>>

notParseVars == <<findVars, cfgVars, clockVars, visionVars, cbVars, rateVars, origVars, wsVars, retVars, gdprVars, cmVars, vfVars, exportVars, settingsVars, pathVars, mapVars, bulkheadVars, managerVars>>

notExportVars == <<findVars, cfgVars, clockVars, visionVars, cbVars, rateVars, origVars, wsVars, retVars, gdprVars, cmVars, vfVars, parseVars, settingsVars, pathVars, mapVars, bulkheadVars, managerVars>>

notSettingsVars == <<findVars, cfgVars, clockVars, visionVars, cbVars, rateVars, origVars, wsVars, retVars, gdprVars, cmVars, vfVars, parseVars, exportVars, pathVars, mapVars, bulkheadVars, managerVars>>

notPathVars == <<findVars, cfgVars, clockVars, visionVars, cbVars, rateVars, origVars, wsVars, retVars, gdprVars, cmVars, vfVars, parseVars, exportVars, settingsVars, mapVars, bulkheadVars, managerVars>>

notMapVars == <<findVars, cfgVars, clockVars, visionVars, cbVars, rateVars, origVars, wsVars, retVars, gdprVars, cmVars, vfVars, parseVars, exportVars, settingsVars, pathVars, bulkheadVars, managerVars>>

notBulkheadVars == <<findVars, cfgVars, clockVars, visionVars, cbVars, rateVars, origVars, wsVars, retVars, gdprVars, cmVars, vfVars, parseVars, exportVars, settingsVars, pathVars, mapVars, managerVars>>

notManagerVars == <<findVars, cfgVars, clockVars, visionVars, cbVars, rateVars, origVars, wsVars, retVars, gdprVars, cmVars, vfVars, parseVars, exportVars, settingsVars, pathVars, mapVars, bulkheadVars>>

\* what a start of the Vision gate leaves alone
startFrame == <<findVars, cfgVars, clockVars, cbVars, rateVars, origVars, wsVars, retVars, gdprVars, cmVars, vfVars, parseVars, exportVars, pathVars, mapVars, bulkheadVars, managerVars>>


\* ===================================================================
\* Deployment configuration
\* ===================================================================

EnvValues == {"true", "false", "unset"}

\* app/config.py: os.getenv("USE_REDIS","false").lower()=="true"
ConfigUseRedis(env) == env = "true"

\* app/core/config.py: Field(True, env="USE_REDIS")
CoreUseRedis(env) == env # "false"

\* idempotency.py line 20: redis_client exists only when app.config says so
idemRedis == ConfigUseRedis(envUseRedis)

\* ===================================================================
\* Part I: idempotent execution
\* ===================================================================

\* IdempotencyKey.generate as idempotent_ocr calls it: the ocr_config is the
\* fixed settings triple, scryfall_snapshot defaults to today's date.  The
\* SHA-256 prefix is modelled as the (injective) tuple of its inputs.
IdempotencyKey_generate(image_hash, scryfall_snapshot) ==
    <<image_hash, scryfall_snapshot>>

\* the image whose submissions are followed; keys of different images share nothing
IdemImages == {"img"}

Keys == IdemImages \X Days

NoKey == <<"", 0>>

\* the dict returned to the caller; kind "none" before the call returns,
\* "raised" when the exception propagated
NoRet == [kind |-> "none", value |-> 0, idempotency_key |-> NoKey, from_cache |-> FALSE]

Raised == [kind |-> "raised", value |-> 0, idempotency_key |-> NoKey, from_cache |-> FALSE]

\* result dict built at lines 250-252
FreshResult(v, k) ==
    [kind |-> "value", value |-> v, idempotency_key |-> k, from_cache |-> FALSE]

get_cached_result_miss(redis, store, k) == {}

\* lines 143-165: the stored JSON, or nothing
get_cached_result(redis, store, k) ==
    IF ~redis THEN {} ELSE store[k]

\* lines 167-192: SETEX result_key
cache_result(redis, store, k, result) ==
    IF ~redis THEN store ELSE [store EXCEPT ![k] = {result}]

\* lines 232-234 / 241-243: cached["from_cache"] = True
MarkCached(cached) == [cached EXCEPT !.from_cache = TRUE]

\* redis-py Lock.acquire: SET lock_key token NX PX timeout
LockFree(owner, k) == owner[k] = NoOwner

acquire_lock(redis, owner, k, c) ==
    IF ~redis THEN owner ELSE [owner EXCEPT ![k] = c]

\* lines 133-141: Lock.release deletes the key only when it still holds this
\* call's token; LockError (unlocked / not owned) is swallowed
release_lock_noop(hasLock, hasToken, owner, k, c) == owner

release_lock(hasLock, hasToken, owner, k, c) ==
    IF hasLock /\ hasToken /\ owner[k] = c
    THEN [owner EXCEPT ![k] = NoOwner]
    ELSE owner

IdemInit ==
    /\ today = 0
    /\ lockOwner = [k \in Keys |-> NoOwner]
    /\ resultStore = [k \in Keys |-> {}]
    /\ cpc = [c \in Callers |-> "idle"]
    /\ ckey = [c \in Callers |-> NoKey]
    /\ chaslock = [c \in Callers |-> FALSE]
    /\ ctoken = [c \in Callers |-> FALSE]
    /\ cran = [c \in Callers |-> FALSE]
    /\ cret = [c \in Callers |-> NoRet]
    /\ lockExpired = FALSE

\* lines 219-234: key generation, IdempotentOperation(key), first cache read
IdemCall(c, h) ==
    /\ cpc[c] = "idle"
    /\ LET k == IdempotencyKey_generate(h, today)
           cached == get_cached_result(idemRedis, resultStore, k)
       IN /\ ckey' = [ckey EXCEPT ![c] = k]
          /\ IF cached # {}
             THEN /\ cret' = [cret EXCEPT ![c] = MarkCached(CHOOSE r \in cached : TRUE)]
                  /\ cpc' = [cpc EXCEPT ![c] = "exit"]
             ELSE /\ cret' = [cret EXCEPT ![c] = NoRet]
                  /\ cpc' = [cpc EXCEPT ![c] = "acquire"]
    /\ chaslock' = [chaslock EXCEPT ![c] = FALSE]
    /\ ctoken' = [ctoken EXCEPT ![c] = FALSE]
    /\ cran' = [cran EXCEPT ![c] = FALSE]
    /\ UNCHANGED <<envUseRedis, today, lockOwner, resultStore, lockExpired>>
    /\ UNCHANGED <<storeVars, upVars, taskVars, clientVars, laterVars>>

\* lines 99-127, acquire() returns True (or there is no Redis): go on to line 250
IdemAcquire(c) ==
    /\ cpc[c] = "acquire"
    /\ idemRedis => LockFree(lockOwner, ckey[c])
    /\ lockOwner' = acquire_lock(idemRedis, lockOwner, ckey[c], c)
    /\ chaslock' = [chaslock EXCEPT ![c] = idemRedis]
    /\ ctoken' = [ctoken EXCEPT ![c] = idemRedis]
    /\ cran' = [cran EXCEPT ![c] = TRUE]
    /\ cpc' = [cpc EXCEPT ![c] = "exec"]
    /\ UNCHANGED <<envUseRedis, today, resultStore, ckey, cret, lockExpired>>
    /\ UNCHANGED <<storeVars, upVars, taskVars, clientVars, laterVars>>

\* lines 117-127, the lock stayed held for blocking_timeout: acquire() returns False
IdemAcquireTimeout(c) ==
    /\ cpc[c] = "acquire"
    /\ idemRedis
    /\ ~LockFree(lockOwner, ckey[c])
    /\ chaslock' = [chaslock EXCEPT ![c] = TRUE]
    /\ cpc' = [cpc EXCEPT ![c] = "recheck"]
    /\ UNCHANGED <<envUseRedis, today, lockOwner, resultStore, ckey, ctoken, cran,
                   cret, lockExpired>>
    /\ UNCHANGED <<storeVars, upVars, taskVars, clientVars, laterVars>>

\* lines 239-246: sleep, re-read the result, proceed without the lock on a miss
IdemRecheck(c) ==
    /\ cpc[c] = "recheck"
    /\ LET cached == get_cached_result(idemRedis, resultStore, ckey[c])
       IN IF cached # {}
          THEN /\ cret' = [cret EXCEPT ![c] = MarkCached(CHOOSE r \in cached : TRUE)]
               /\ cpc' = [cpc EXCEPT ![c] = "exit"]
               /\ cran' = cran
          ELSE /\ cret' = cret
               /\ cpc' = [cpc EXCEPT ![c] = "exec"]
               /\ cran' = [cran EXCEPT ![c] = TRUE]
    /\ UNCHANGED <<envUseRedis, today, lockOwner, resultStore, ckey, chaslock, ctoken,
                   lockExpired>>
    /\ UNCHANGED <<storeVars, upVars, taskVars, clientVars, laterVars>>

\* lines 250-257: ocr_function returns; the result is built, cached and returned
IdemExecReturn(c, v) ==
    /\ cpc[c] = "exec"
    /\ LET result == FreshResult(v, ckey[c])
       IN /\ resultStore' = cache_result(idemRedis, resultStore, ckey[c], result)
          /\ cret' = [cret EXCEPT ![c] = result]
    /\ cpc' = [cpc EXCEPT ![c] = "exit"]
    /\ UNCHANGED <<envUseRedis, today, lockOwner, ckey, chaslock, ctoken, cran,
                   lockExpired>>
    /\ UNCHANGED <<storeVars, upVars, taskVars, clientVars, laterVars>>

\* lines 259-261: ocr_function raises, the exception is re-raised
IdemExecRaise(c) ==
    /\ cpc[c] = "exec"
    /\ cret' = [cret EXCEPT ![c] = Raised]
    /\ cpc' = [cpc EXCEPT ![c] = "exit"]
    /\ UNCHANGED <<envUseRedis, today, lockOwner, resultStore, ckey, chaslock, ctoken, cran, lockExpired>>
    /\ UNCHANGED <<storeVars, upVars, taskVars, clientVars, laterVars>>

\* lines 198-200: __exit__ releases the lock on every way out of the with block
IdemExit(c) ==
    /\ cpc[c] = "exit"
    /\ lockOwner' = release_lock(chaslock[c], ctoken[c], lockOwner, ckey[c], c)
    /\ ctoken' = [ctoken EXCEPT ![c] = FALSE]
    /\ cpc' = [cpc EXCEPT ![c] = "done"]
    /\ UNCHANGED <<envUseRedis, today, resultStore, ckey, chaslock, cran, cret,
                   lockExpired>>
    /\ UNCHANGED <<storeVars, upVars, taskVars, clientVars, laterVars>>

\* line 116: the lock key auto-releases `timeout` seconds after it was set
IdemLockExpire(k) ==
    /\ lockOwner[k] # NoOwner
    /\ lockOwner' = [lockOwner EXCEPT ![k] = NoOwner]
    /\ lockExpired' = TRUE
    /\ UNCHANGED <<envUseRedis, today, resultStore, cpc, ckey, chaslock, ctoken, cran,
                   cret>>
    /\ UNCHANGED <<storeVars, upVars, taskVars, clientVars, laterVars>>

\* lines 182-186: the result key expires self.ttl seconds after it was written
IdemResultExpire(k) ==
    /\ resultStore[k] # {}
    /\ resultStore' = [resultStore EXCEPT ![k] = {}]
    /\ UNCHANGED <<envUseRedis, today, lockOwner, cpc, ckey, chaslock, ctoken, cran,
                   cret, lockExpired>>
    /\ UNCHANGED <<storeVars, upVars, taskVars, clientVars, laterVars>>

\* line 58: the UTC date changes
IdemNextDay ==
    /\ today < MaxDay
    /\ today' = today + 1
    /\ UNCHANGED <<envUseRedis, lockOwner, resultStore, cpc, ckey, chaslock, ctoken, cran, cret, lockExpired>>
    /\ UNCHANGED <<storeVars, upVars, taskVars, clientVars, laterVars>>

IdemNext ==
    \/ \E c \in Callers, h \in IdemImages : IdemCall(c, h)
    \/ \E c \in Callers : IdemAcquire(c)
    \/ \E c \in Callers : IdemAcquireTimeout(c)
    \/ \E c \in Callers : IdemRecheck(c)
    \/ \E c \in Callers, v \in Results : IdemExecReturn(c, v)
    \/ \E c \in Callers : IdemExecRaise(c)
    \/ \E c \in Callers : IdemExit(c)
    \/ \E k \in Keys : IdemLockExpire(k)
    \/ \E k \in Keys : IdemResultExpire(k)
    \/ IdemNextDay


\* ===================================================================
\* Part II: job storage (Redis keys job:<id>, idx:hash:<h>, idx:user:<u>)
\* ===================================================================

NumUploads == 2
NumTasks   == 1
NumHashes  == 1
NumUsers   == 1

Uploads == 1..NumUploads
Tasks   == 1..NumTasks
Hashes  == 1..NumHashes
\* user ids; NoUser is token_data = None
NoUser  == 0
Users   == 1..NumUsers

\* uuid4 job ids: upload u draws id u, task t is run for an id of its own
TaskOwnId(t) == NumUploads + t

JobIds == 1..(NumUploads + NumTasks)


\* absent optional fields: None is 0 for ids, results and errors, -1 for a
\* progress argument and "None" for a state argument
NoJob == [state |-> "absent", progress |-> 0, image_hash |-> 0, user_id |-> 0,
          result |-> 0, error |-> 0]

Present(job) == job.state # "absent"

TerminalStates == {"completed", "failed", "cancelled"}

\* create_job lines 83-94: the initial record
NewJob(image_hash, user_id) ==
    [state |-> "queued", progress |-> 0, image_hash |-> image_hash, user_id |-> user_id,
     result |-> 0, error |-> 0]

\* create_job lines 99-104: SET key value NX EX ttl; truthy when the key was set
SetNXCreates_always(store, job_id) == TRUE

SetNXCreates(store, job_id) == ~Present(store[job_id])

SetNX(store, job_id, job_data) ==
    IF SetNXCreates(store, job_id) THEN [store EXCEPT ![job_id] = job_data] ELSE store

\* update_job lines 181-189: only the arguments that are not None are applied
ApplyUpdate(job_data, state, progress, result, error) ==
    [job_data EXCEPT
        !.state    = IF state # "None" THEN state ELSE @,
        !.progress = IF progress # -1 THEN progress ELSE @,
        !.result   = IF result # 0 THEN result ELSE @,
        !.error    = IF error # 0 THEN error ELSE @]

\* tasks.py update_job_status lines 55-64: a fresh dict replaces the stored one
TaskRecord(status, progress, result, error) ==
    [state |-> status, progress |-> progress, image_hash |-> 0, user_id |-> 0,
     result |-> result, error |-> error]

\* tasks.py lines 52-71: no-op without a Redis client, else SETEX job:<id>
update_job_status(redis, store, job_id, status, progress, result, error) ==
    IF ~redis THEN store
    ELSE [store EXCEPT ![job_id] = TaskRecord(status, progress, result, error)]

\* models.py lines 47-48: UploadResponse declares jobId only; pydantic drops the
\* undeclared `cached` keyword
UploadResponse(jobId, cached) == [jobId |-> jobId]

StoreInit ==
    /\ jobs = [j \in JobIds |-> NoJob]
    /\ idxHash = [h \in Hashes |-> {}]
    /\ idxHashTTL = [h \in Hashes |-> FALSE]
    /\ idxUser = [u \in Users |-> {}]
    /\ idxUserTTL = [u \in Users |-> FALSE]
    /\ jobExpired = [j \in JobIds |-> FALSE]

\* the TTL set by SET ... EX removes job:<id>
JobExpire(j) ==
    /\ Present(jobs[j])
    /\ jobs' = [jobs EXCEPT ![j] = NoJob]
    /\ jobExpired' = [jobExpired EXCEPT ![j] = TRUE]
    /\ UNCHANGED <<idxHash, idxHashTTL, idxUser, idxUserTTL>>
    /\ UNCHANGED <<envUseRedis, idemVars, upVars, taskVars, clientVars, laterVars>>

\* the TTL set by EXPIRE removes idx:hash:<h>
IdxHashExpire(h) ==
    /\ idxHash[h] # {} /\ idxHashTTL[h]
    /\ idxHash' = [idxHash EXCEPT ![h] = {}]
    /\ idxHashTTL' = [idxHashTTL EXCEPT ![h] = FALSE]
    /\ UNCHANGED <<jobs, idxUser, idxUserTTL, jobExpired>>
    /\ UNCHANGED <<envUseRedis, idemVars, upVars, taskVars, clientVars, laterVars>>

\* the TTL set by EXPIRE removes idx:user:<u>
IdxUserExpire(u) ==
    /\ idxUser[u] # {} /\ idxUserTTL[u]
    /\ idxUser' = [idxUser EXCEPT ![u] = {}]
    /\ idxUserTTL' = [idxUserTTL EXCEPT ![u] = FALSE]
    /\ UNCHANGED <<jobs, idxHash, idxHashTTL, jobExpired>>
    /\ UNCHANGED <<envUseRedis, idemVars, upVars, taskVars, clientVars, laterVars>>

StoreExpire ==
    \/ \E j \in JobIds : JobExpire(j)
    \/ \E h \in Hashes : IdxHashExpire(h)
    \/ \E u \in Users : IdxUserExpire(u)

\* ===================================================================
\* Part III: the upload handler (main.py) and the Celery task (tasks.py)
\* ===================================================================


\* main.py line 199 reads app.core.config; tasks.py line 48 reads app.config
coreRedis == CoreUseRedis(envUseRedis)

taskRedis == ConfigUseRedis(envUseRedis)

NoResp == [kind |-> "none"]

\* DeckResult carries jobId (main.py line 315): the result of job j is modelled as j
ResultOf(job_id) == job_id

\* the update_job calls of upload_image / process_ocr, in program order:
\* main.py 222, 275, 281, 295, 304, then 229-234 (step 6) or 238-243 (step 7)
UploadUpdState(s, job_id) ==
    CASE s = 1 -> "processing" [] s = 6 -> "completed" [] s = 7 -> "failed" [] OTHER -> "None"

UploadUpdProgress(s) ==
    CASE s = 1 -> 10 [] s = 2 -> 20 [] s = 3 -> 40 [] s = 4 -> 60 [] s = 5 -> 80 [] OTHER -> 100

UploadUpdResult(s, job_id) == IF s = 6 THEN ResultOf(job_id) ELSE 0

UploadUpdError(s) == IF s = 7 THEN 1 ELSE 0

\* the update_job_status calls of process_ocr_task: tasks.py 97, 104, 111, 129,
\* 163, 230
TaskProgress(s) ==
    CASE s = 1 -> 10 [] s = 2 -> 20 [] s = 3 -> 40 [] s = 4 -> 60 [] s = 5 -> 80 [] OTHER -> 100

\* tasks.py line 237: update_job_status(job_id, "failed", 0, error=...)
TaskFailProgress == 0

UploadInit ==
    /\ upc = [u \in Uploads |-> "idle"]
    /\ uhash = [u \in Uploads |-> 0]
    /\ uuser = [u \in Uploads |-> NoUser]
    /\ uscan = [u \in Uploads |-> {}]
    /\ ustep = [u \in Uploads |-> 0]
    /\ uread = [u \in Uploads |-> NoJob]
    /\ uresp = [u \in Uploads |-> NoResp]
    /\ usawDone = [u \in Uploads |-> FALSE]

TaskInit ==
    /\ tpc = [t \in Tasks |-> "idle"]
    /\ tjob = [t \in Tasks |-> 0]
    /\ tstep = [t \in Tasks |-> 0]

\* main.py 158-178: header or image validation fails, HTTP 400
UploadReject(u) ==
    /\ upc[u] = "idle"
    /\ upc' = [upc EXCEPT ![u] = "done"]
    /\ uresp' = [uresp EXCEPT ![u] = [kind |-> "error", status |-> 400]]
    /\ UNCHANGED <<uhash, uuser, uscan, ustep, uread, usawDone, storeVars>>
    /\ UNCHANGED <<envUseRedis, idemVars, taskVars, clientVars, laterVars>>

\* main.py 180-200 and job_storage.py 217-219: validation passes, the hash is
\* taken, and (with Redis enabled) find_by_image_hash reads the index set
UploadStart(u, h, usr) ==
    /\ upc[u] = "idle"
    /\ uhash' = [uhash EXCEPT ![u] = h]
    /\ uuser' = [uuser EXCEPT ![u] = usr]
    /\ usawDone' = [usawDone EXCEPT ![u] =
            \E j \in JobIds : jobs[j].state = "completed" /\ jobs[j].image_hash = h]
    /\ IF coreRedis
       THEN /\ uscan' = [uscan EXCEPT ![u] = idxHash[h]]
            /\ upc' = [upc EXCEPT ![u] = "find"]
       ELSE /\ uscan' = uscan
            /\ upc' = [upc EXCEPT ![u] = "create"]
    /\ UNCHANGED <<ustep, uread, uresp, storeVars>>
    /\ UNCHANGED <<envUseRedis, idemVars, taskVars, clientVars, laterVars>>

\* job_storage.py 222-226 and main.py 201-204: one iteration of the scan; a
\* completed job ends the request with its id
UploadFindScan(u, j) ==
    /\ upc[u] = "find"
    /\ j \in uscan[u]
    /\ IF Present(jobs[j]) /\ jobs[j].state = "completed"
       THEN /\ uresp' = [uresp EXCEPT ![u] = [kind |-> "ok", body |-> UploadResponse(j, TRUE)]]
            /\ upc' = [upc EXCEPT ![u] = "done"]
            /\ uscan' = [uscan EXCEPT ![u] = {}]
       ELSE /\ uscan' = [uscan EXCEPT ![u] = @ \ {j}]
            /\ UNCHANGED <<upc, uresp>>
    /\ UNCHANGED <<uhash, uuser, ustep, uread, usawDone, storeVars>>
    /\ UNCHANGED <<envUseRedis, idemVars, taskVars, clientVars, laterVars>>

\* job_storage.py 228 and main.py 206-210: nothing found, a new job id is drawn
UploadFindMiss(u) ==
    /\ upc[u] = "find"
    /\ uscan[u] = {}
    /\ upc' = [upc EXCEPT ![u] = "create"]
    /\ UNCHANGED <<uhash, uuser, uscan, ustep, uread, uresp, usawDone, storeVars>>
    /\ UNCHANGED <<envUseRedis, idemVars, taskVars, clientVars, laterVars>>

\* main.py 212-217 and job_storage.py 83-106: SET NX of the queued record
UploadCreate(u) ==
    /\ upc[u] = "create"
    /\ jobs' = SetNX(jobs, u, NewJob(uhash[u], uuser[u]))
    /\ ustep' = [ustep EXCEPT ![u] = 1]
    /\ upc' = [upc EXCEPT ![u] = IF SetNXCreates(jobs, u) THEN "sadd" ELSE "upd_read"]
    /\ UNCHANGED <<uhash, uuser, uscan, uread, uresp, usawDone,
                   idxHash, idxHashTTL, idxUser, idxUserTTL, jobExpired>>
    /\ UNCHANGED <<envUseRedis, idemVars, taskVars, clientVars, laterVars>>

\* job_storage.py 108-112: SADD idx:hash:<h>
UploadSadd(u) ==
    /\ upc[u] = "sadd"
    /\ idxHash' = [idxHash EXCEPT ![uhash[u]] = @ \cup {u}]
    /\ upc' = [upc EXCEPT ![u] = "expire_hash"]
    /\ UNCHANGED <<uhash, uuser, uscan, ustep, uread, uresp, usawDone,
                   jobs, idxHashTTL, idxUser, idxUserTTL, jobExpired>>
    /\ UNCHANGED <<envUseRedis, idemVars, taskVars, clientVars, laterVars>>

\* job_storage.py 113-116: EXPIRE idx:hash:<h>
UploadExpireHash(u) ==
    /\ upc[u] = "expire_hash"
    /\ idxHashTTL' = [idxHashTTL EXCEPT ![uhash[u]] = idxHash[uhash[u]] # {}]
    /\ upc' = [upc EXCEPT ![u] = IF uuser[u] # NoUser THEN "zadd" ELSE "upd_read"]
    /\ UNCHANGED <<uhash, uuser, uscan, ustep, uread, uresp, usawDone,
                   jobs, idxHash, idxUser, idxUserTTL, jobExpired>>
    /\ UNCHANGED <<envUseRedis, idemVars, taskVars, clientVars, laterVars>>

\* job_storage.py 118-122: ZADD idx:user:<u>
UploadZadd(u) ==
    /\ upc[u] = "zadd"
    /\ idxUser' = [idxUser EXCEPT ![uuser[u]] = @ \cup {u}]
    /\ upc' = [upc EXCEPT ![u] = "expire_user"]
    /\ UNCHANGED <<uhash, uuser, uscan, ustep, uread, uresp, usawDone,
                   jobs, idxHash, idxHashTTL, idxUserTTL, jobExpired>>
    /\ UNCHANGED <<envUseRedis, idemVars, taskVars, clientVars, laterVars>>

\* job_storage.py 123-126: EXPIRE idx:user:<u>
UploadExpireUser(u) ==
    /\ upc[u] = "expire_user"
    /\ idxUserTTL' = [idxUserTTL EXCEPT ![uuser[u]] = idxUser[uuser[u]] # {}]
    /\ upc' = [upc EXCEPT ![u] = "upd_read"]
    /\ UNCHANGED <<uhash, uuser, uscan, ustep, uread, uresp, usawDone,
                   jobs, idxHash, idxHashTTL, idxUser, jobExpired>>
    /\ UNCHANGED <<envUseRedis, idemVars, taskVars, clientVars, laterVars>>

\* where the request goes once update_job call s has returned
UploadAfterUpdate(u, s) ==
    IF s <= 5
    THEN /\ upc' = [upc EXCEPT ![u] = "stage"]
         /\ uresp' = uresp
    ELSE /\ upc' = [upc EXCEPT ![u] = "done"]
         /\ uresp' = [uresp EXCEPT ![u] =
                IF s = 6 THEN [kind |-> "ok", body |-> UploadResponse(u, FALSE)]
                ELSE [kind |-> "error", status |-> 500]]

\* job_storage.py 176-179: update_job reads the record; a missing record ends the call
UploadUpdRead(u) ==
    /\ upc[u] = "upd_read"
    /\ IF Present(jobs[u])
       THEN /\ uread' = [uread EXCEPT ![u] = jobs[u]]
            /\ upc' = [upc EXCEPT ![u] = "upd_write"]
            /\ uresp' = uresp
       ELSE /\ uread' = uread
            /\ UploadAfterUpdate(u, ustep[u])
    /\ UNCHANGED <<uhash, uuser, uscan, ustep, usawDone, storeVars>>
    /\ UNCHANGED <<envUseRedis, idemVars, taskVars, clientVars, laterVars>>

\* job_storage.py 181-199: the modified copy is written back with SET ... EX
UploadUpdWrite(u) ==
    /\ upc[u] = "upd_write"
    /\ jobs' = [jobs EXCEPT ![u] =
            ApplyUpdate(uread[u], UploadUpdState(ustep[u], u), UploadUpdProgress(ustep[u]),
                        UploadUpdResult(ustep[u], u), UploadUpdError(ustep[u]))]
    /\ uread' = [uread EXCEPT ![u] = NoJob]
    /\ UploadAfterUpdate(u, ustep[u])
    /\ UNCHANGED <<uhash, uuser, uscan, ustep, usawDone,
                   idxHash, idxHashTTL, idxUser, idxUserTTL, jobExpired>>
    /\ UNCHANGED <<envUseRedis, idemVars, taskVars, clientVars, laterVars>>

\* main.py 226 / 270-310: the pipeline stage after update s succeeds
UploadStageOk(u) ==
    /\ upc[u] = "stage"
    /\ ustep' = [ustep EXCEPT ![u] = @ + 1]
    /\ upc' = [upc EXCEPT ![u] = "upd_read"]
    /\ UNCHANGED <<uhash, uuser, uscan, uread, uresp, usawDone, storeVars>>
    /\ UNCHANGED <<envUseRedis, idemVars, taskVars, clientVars, laterVars>>

\* main.py 236-243: the pipeline stage raises, the handler records the failure
UploadStageRaise(u) ==
    /\ upc[u] = "stage"
    /\ ustep' = [ustep EXCEPT ![u] = 7]
    /\ upc' = [upc EXCEPT ![u] = "upd_read"]
    /\ UNCHANGED <<uhash, uuser, uscan, uread, uresp, usawDone, storeVars>>
    /\ UNCHANGED <<envUseRedis, idemVars, taskVars, clientVars, laterVars>>

UploadNext ==
    \/ \E u \in Uploads : UploadReject(u)
    \/ \E u \in Uploads, h \in Hashes, usr \in {NoUser} \cup Users : UploadStart(u, h, usr)
    \/ \E u \in Uploads, j \in JobIds : UploadFindScan(u, j)
    \/ \E u \in Uploads : UploadFindMiss(u)
    \/ \E u \in Uploads : UploadCreate(u)
    \/ \E u \in Uploads : UploadSadd(u)
    \/ \E u \in Uploads : UploadExpireHash(u)
    \/ \E u \in Uploads : UploadZadd(u)
    \/ \E u \in Uploads : UploadExpireUser(u)
    \/ \E u \in Uploads : UploadUpdRead(u)
    \/ \E u \in Uploads : UploadUpdWrite(u)
    \/ \E u \in Uploads : UploadStageOk(u)
    \/ \E u \in Uploads : UploadStageRaise(u)

\* tasks.py 95-97: the task starts for its job id and writes processing/10.
\* upload_image runs the pipeline inline and hands no job to the task, so the
\* task's job id is one no upload has drawn.
TaskStart(t) ==
    /\ tpc[t] = "idle"
    /\ tjob' = [tjob EXCEPT ![t] = TaskOwnId(t)]
    /\ tstep' = [tstep EXCEPT ![t] = 1]
    /\ tpc' = [tpc EXCEPT ![t] = "run"]
    /\ jobs' = update_job_status(taskRedis, jobs, TaskOwnId(t), "processing", TaskProgress(1), 0, 0)
    /\ UNCHANGED <<idxHash, idxHashTTL, idxUser, idxUserTTL, jobExpired>>
    /\ UNCHANGED <<envUseRedis, idemVars, upVars, clientVars, laterVars>>

\* tasks.py 104, 111, 129, 163, 230: the next status write
TaskAdvance(t) ==
    /\ tpc[t] = "run"
    /\ tstep[t] < 6
    /\ LET s == tstep[t] + 1
       IN jobs' = update_job_status(taskRedis, jobs, tjob[t],
                        IF s = 6 THEN "completed" ELSE "processing", TaskProgress(s),
                        IF s = 6 THEN ResultOf(tjob[t]) ELSE 0, 0)
    /\ tstep' = [tstep EXCEPT ![t] = @ + 1]
    /\ UNCHANGED <<tpc, tjob, idxHash, idxHashTTL, idxUser, idxUserTTL, jobExpired>>
    /\ UNCHANGED <<envUseRedis, idemVars, upVars, clientVars, laterVars>>

\* tasks.py 232-233: the task returns its result
TaskReturn(t) ==
    /\ tpc[t] = "run"
    /\ tstep[t] = 6
    /\ tpc' = [tpc EXCEPT ![t] = "done"]
    /\ UNCHANGED <<tjob, tstep, storeVars>>
    /\ UNCHANGED <<envUseRedis, idemVars, upVars, clientVars, laterVars>>

\* tasks.py 235-238: an exception inside the try block (a pipeline error, or
\* SoftTimeLimitExceeded, which Celery raises at any point of the task after
\* task_soft_time_limit seconds) is recorded as failed and re-raised
TaskRaise(t) ==
    /\ tpc[t] = "run"
    /\ jobs' = update_job_status(taskRedis, jobs, tjob[t], "failed",
                    TaskFailProgress, 0, 1)
    /\ tpc' = [tpc EXCEPT ![t] = "raised"]
    /\ UNCHANGED <<tjob, tstep, idxHash, idxHashTTL, idxUser, idxUserTTL, jobExpired>>
    /\ UNCHANGED <<envUseRedis, idemVars, upVars, clientVars, laterVars>>

\* tasks.py 41: task_time_limit. A task that does not leave native code (image
\* decoding, OCR inference) when SoftTimeLimitExceeded is due never runs its
\* except clause; at the hard limit Celery kills the worker process that runs
\* it. No line of the task executes after that: the job record keeps what the
\* last update_job_status wrote.
TaskHardLimit(t) ==
    /\ tpc[t] = "run"
    /\ tpc' = [tpc EXCEPT ![t] = "killed"]
    /\ UNCHANGED <<tjob, tstep, storeVars>>
    /\ UNCHANGED <<envUseRedis, idemVars, upVars, clientVars, laterVars>>

\* the steps of one started task
TaskRun(t) == TaskAdvance(t) \/ TaskReturn(t) \/ TaskRaise(t) \/ TaskHardLimit(t)

\* the steps of one upload request
UploadRun(u) ==
    \/ \E j \in JobIds : UploadFindScan(u, j)
    \/ UploadFindMiss(u) \/ UploadCreate(u) \/ UploadSadd(u) \/ UploadExpireHash(u)
    \/ UploadZadd(u) \/ UploadExpireUser(u) \/ UploadUpdRead(u) \/ UploadUpdWrite(u)
    \/ UploadStageOk(u) \/ UploadStageRaise(u)

TaskNext ==
    \/ \E t \in Tasks : TaskStart(t)
    \/ \E t \in Tasks : TaskAdvance(t)
    \/ \E t \in Tasks : TaskReturn(t)
    \/ \E t \in Tasks : TaskRaise(t)

\* ===================================================================
\* Part II (continued): callers of the JobStorage API
\* ===================================================================

NumClients == 2

Clients == 1..NumClients

\* the job id the calls are about; calls for different ids use different job keys
ClientJobs == {1}


NoOp == [op |-> "none", job_id |-> 0, image_hash |-> 0, user_id |-> NoUser,
         state |-> "None", progress |-> -1, result |-> 0, error |-> 0]

\* create_job(job_id, image_hash, user_id), each optional argument given or None
CreateOps ==
    {[NoOp EXCEPT !.op = "create_job", !.job_id = j, !.image_hash = h, !.user_id = usr] :
        j \in ClientJobs, h \in {0, 1}, usr \in {NoUser, 1}}

\* update_job(job_id, state, progress, result, error): a state change, a
\* progress-only update and a result-only update
UpdateOps ==
    {[NoOp EXCEPT !.op = "update_job", !.job_id = j, !.state = a[1], !.progress = a[2],
                  !.result = a[3], !.error = a[4]] :
        j \in ClientJobs,
        a \in {<<"processing", 10, 0, 0>>, <<"None", 20, 0, 0>>, <<"None", -1, 1, 0>>}}

\* set_job(job_id, data): lines 357-359 take state (default "queued"), result
\* and error out of data
SetJobOps ==
    {[NoOp EXCEPT !.op = "set_job", !.job_id = j, !.state = a[1], !.result = a[2],
                  !.error = a[3]] :
        j \in ClientJobs,
        a \in {<<"completed", 1, 0>>, <<"queued", 0, 0>>}}

ClientOps == CreateOps \cup UpdateOps \cup SetJobOps

ClientInit ==
    /\ kpc = [k \in Clients |-> "idle"]
    /\ kop = [k \in Clients |-> NoOp]
    /\ kread = [k \in Clients |-> NoJob]
    /\ kret = [k \in Clients |-> "none"]

\* the records a stored job can hold when the calls start
StoredRecords ==
    {NoJob,
     NewJob(1, NoUser),
     [NewJob(1, NoUser) EXCEPT !.state = "processing", !.progress = 40],
     [NewJob(1, NoUser) EXCEPT !.state = "completed", !.progress = 100, !.result = 1],
     [NewJob(1, NoUser) EXCEPT !.state = "failed", !.progress = 100, !.error = 1]}

\* a store as earlier requests left it: records of ClientJobs with their index entries
StoreInitAny ==
    /\ jobs \in [JobIds -> StoredRecords]
    /\ \A j \in JobIds \ ClientJobs : jobs[j] = NoJob
    /\ idxHash = [h \in Hashes |-> {j \in JobIds : Present(jobs[j]) /\ jobs[j].image_hash = h}]
    /\ idxHashTTL = [h \in Hashes |-> idxHash[h] # {}]
    /\ idxUser = [u \in Users |-> {}]
    /\ idxUserTTL = [u \in Users |-> FALSE]
    /\ jobExpired = [j \in JobIds |-> FALSE]

\* a call is issued; its first Redis command is still to come
ClientCall(k, op) ==
    /\ kpc[k] = "idle"
    /\ kop' = [kop EXCEPT ![k] = op]
    /\ kpc' = [kpc EXCEPT ![k] =
            CASE op.op = "create_job" -> "setnx"
              [] op.op = "update_job" -> "upd_read"
              [] OTHER -> "set_get"]
    /\ UNCHANGED <<kread, kret, storeVars>>
    /\ UNCHANGED <<envUseRedis, idemVars, upVars, taskVars, laterVars>>

\* job_storage.py 99-106 / 131-132: SET NX; False is returned when the key exists
ClientSetNX(k) ==
    /\ kpc[k] = "setnx"
    /\ jobs' = SetNX(jobs, kop[k].job_id, NewJob(kop[k].image_hash, kop[k].user_id))
    /\ IF SetNXCreates(jobs, kop[k].job_id)
       THEN /\ kpc' = [kpc EXCEPT ![k] =
                    IF kop[k].op = "set_job" THEN "upd_read"
                    ELSE IF kop[k].image_hash # 0 THEN "sadd"
                    ELSE IF kop[k].user_id # NoUser THEN "zadd"
                    ELSE "done"]
            /\ kret' = [kret EXCEPT ![k] =
                    IF kop[k].op = "create_job" /\ kop[k].image_hash = 0
                       /\ kop[k].user_id = NoUser THEN "True" ELSE @]
       ELSE /\ kpc' = [kpc EXCEPT ![k] = IF kop[k].op = "set_job" THEN "upd_read" ELSE "done"]
            /\ kret' = [kret EXCEPT ![k] = IF kop[k].op = "set_job" THEN @ ELSE "False"]
    /\ UNCHANGED <<kop, kread, idxHash, idxHashTTL, idxUser, idxUserTTL, jobExpired>>
    /\ UNCHANGED <<envUseRedis, idemVars, upVars, taskVars, laterVars>>

\* job_storage.py 108-112
ClientSadd(k) ==
    /\ kpc[k] = "sadd"
    /\ idxHash' = [idxHash EXCEPT ![kop[k].image_hash] = @ \cup {kop[k].job_id}]
    /\ kpc' = [kpc EXCEPT ![k] = "expire_hash"]
    /\ UNCHANGED <<kop, kread, kret, jobs, idxHashTTL, idxUser, idxUserTTL, jobExpired>>
    /\ UNCHANGED <<envUseRedis, idemVars, upVars, taskVars, laterVars>>

\* job_storage.py 113-116, then 118 or 128-129
ClientExpireHash(k) ==
    /\ kpc[k] = "expire_hash"
    /\ idxHashTTL' = [idxHashTTL EXCEPT ![kop[k].image_hash] = idxHash[kop[k].image_hash] # {}]
    /\ IF kop[k].user_id # NoUser
       THEN kpc' = [kpc EXCEPT ![k] = "zadd"] /\ kret' = kret
       ELSE kpc' = [kpc EXCEPT ![k] = "done"] /\ kret' = [kret EXCEPT ![k] = "True"]
    /\ UNCHANGED <<kop, kread, jobs, idxHash, idxUser, idxUserTTL, jobExpired>>
    /\ UNCHANGED <<envUseRedis, idemVars, upVars, taskVars, laterVars>>

\* job_storage.py 118-122
ClientZadd(k) ==
    /\ kpc[k] = "zadd"
    /\ idxUser' = [idxUser EXCEPT ![kop[k].user_id] = @ \cup {kop[k].job_id}]
    /\ kpc' = [kpc EXCEPT ![k] = "expire_user"]
    /\ UNCHANGED <<kop, kread, kret, jobs, idxHash, idxHashTTL, idxUserTTL, jobExpired>>
    /\ UNCHANGED <<envUseRedis, idemVars, upVars, taskVars, laterVars>>

\* job_storage.py 123-129
ClientExpireUser(k) ==
    /\ kpc[k] = "expire_user"
    /\ idxUserTTL' = [idxUserTTL EXCEPT ![kop[k].user_id] = idxUser[kop[k].user_id] # {}]
    /\ kpc' = [kpc EXCEPT ![k] = "done"]
    /\ kret' = [kret EXCEPT ![k] = "True"]
    /\ UNCHANGED <<kop, kread, jobs, idxHash, idxHashTTL, idxUser, jobExpired>>
    /\ UNCHANGED <<envUseRedis, idemVars, upVars, taskVars, laterVars>>

\* job_storage.py 176-179
ClientUpdRead(k) ==
    /\ kpc[k] = "upd_read"
    /\ IF Present(jobs[kop[k].job_id])
       THEN /\ kread' = [kread EXCEPT ![k] = jobs[kop[k].job_id]]
            /\ kpc' = [kpc EXCEPT ![k] = "upd_write"]
            /\ kret' = kret
       ELSE /\ kread' = kread
            /\ kpc' = [kpc EXCEPT ![k] = "done"]
            /\ kret' = [kret EXCEPT ![k] = "False"]
    /\ UNCHANGED <<kop, storeVars>>
    /\ UNCHANGED <<envUseRedis, idemVars, upVars, taskVars, laterVars>>

\* job_storage.py 181-202
ClientUpdWrite(k) ==
    /\ kpc[k] = "upd_write"
    /\ jobs' = [jobs EXCEPT ![kop[k].job_id] =
            ApplyUpdate(kread[k], kop[k].state, kop[k].progress, kop[k].result, kop[k].error)]
    /\ kread' = [kread EXCEPT ![k] = NoJob]
    /\ kpc' = [kpc EXCEPT ![k] = "done"]
    /\ kret' = [kret EXCEPT ![k] = "True"]
    /\ UNCHANGED <<kop, idxHash, idxHashTTL, idxUser, idxUserTTL, jobExpired>>
    /\ UNCHANGED <<envUseRedis, idemVars, upVars, taskVars, laterVars>>

\* job_storage.py 362-364: set_job looks the job up and creates it when missing
ClientSetJobGet(k) ==
    /\ kpc[k] = "set_get"
    /\ kpc' = [kpc EXCEPT ![k] = IF Present(jobs[kop[k].job_id]) THEN "upd_read" ELSE "setnx"]
    /\ UNCHANGED <<kop, kread, kret, storeVars>>
    /\ UNCHANGED <<envUseRedis, idemVars, upVars, taskVars, laterVars>>

ClientNext ==
    \/ \E k \in Clients, op \in ClientOps : ClientCall(k, op)
    \/ \E k \in Clients : ClientSetNX(k)
    \/ \E k \in Clients : ClientSadd(k)
    \/ \E k \in Clients : ClientExpireHash(k)
    \/ \E k \in Clients : ClientZadd(k)
    \/ \E k \in Clients : ClientExpireUser(k)
    \/ \E k \in Clients : ClientUpdRead(k)
    \/ \E k \in Clients : ClientUpdWrite(k)
    \/ \E k \in Clients : ClientSetJobGet(k)

\* ===================================================================
\* Part IV: JobStorage.find_by_image_hash (job_storage.py 204-228)
\* ===================================================================

\* every variable of Parts I-III
coreVars == <<envUseRedis, idemVars, storeVars, upVars, taskVars, clientVars>>

FindInit ==
    /\ jobCreatedAt = [j \in JobIds |-> 0]
    /\ fpc = "idle"
    /\ fhash = 0
    /\ fscan = {}
    /\ fret = 0

\* the records the scan can meet: absent, created without a fingerprint, or
\* created for fingerprint 1 and not yet / already completed
FindRecords ==
    {NoJob,
     [NewJob(0, NoUser) EXCEPT !.state = "completed", !.progress = 100, !.result = 1],
     [NewJob(1, NoUser) EXCEPT !.state = "processing", !.progress = 40],
     [NewJob(1, NoUser) EXCEPT !.state = "completed", !.progress = 100, !.result = 1]}

\* a store as earlier create_job calls left it: every stored job with a
\* fingerprint is a member of that fingerprint's index set (lines 108-112), the
\* set may still name jobs whose key has expired, and created_at values differ
FindStoreInit ==
    /\ jobs \in [JobIds -> FindRecords]
    /\ idxHash \in [Hashes -> SUBSET JobIds]
    /\ \A h \in Hashes, j \in JobIds :
            /\ (Present(jobs[j]) /\ jobs[j].image_hash = h) => j \in idxHash[h]
            /\ j \in idxHash[h] => (~Present(jobs[j]) \/ jobs[j].image_hash = h)
    /\ idxHashTTL = [h \in Hashes |-> idxHash[h] # {}]
    /\ idxUser = [u \in Users |-> {}]
    /\ idxUserTTL = [u \in Users |-> FALSE]
    /\ jobExpired = [j \in JobIds |-> FALSE]
    /\ jobCreatedAt \in [JobIds -> 0..Cardinality(JobIds)]
    /\ \A j \in JobIds : (jobCreatedAt[j] = 0) <=> ~Present(jobs[j])
    /\ \A i, j \in JobIds :
            (i # j /\ Present(jobs[i]) /\ Present(jobs[j])) => jobCreatedAt[i] # jobCreatedAt[j]

\* lines 214-219: SMEMBERS idx:hash:<h>
FindStart(h) ==
    /\ fpc = "idle"
    /\ fhash' = h
    /\ fscan' = idxHash[h]
    /\ fpc' = "scan"
    /\ UNCHANGED <<jobCreatedAt, fret, coreVars, notFindVars>>

\* lines 222-226: the next member in the set's iteration order (which Python
\* leaves unspecified) is fetched; a completed job is returned
FindScan(j) ==
    /\ fpc = "scan"
    /\ j \in fscan
    /\ IF Present(jobs[j]) /\ jobs[j].state = "completed"
       THEN /\ fret' = j
            /\ fpc' = "done"
            /\ fscan' = {}
       ELSE /\ fscan' = fscan \ {j}
            /\ UNCHANGED <<fret, fpc>>
    /\ UNCHANGED <<jobCreatedAt, fhash, coreVars, notFindVars>>

\* line 228: the loop ran out, None is returned
FindNone ==
    /\ fpc = "scan"
    /\ fscan = {}
    /\ fret' = 0
    /\ fpc' = "done"
    /\ UNCHANGED <<jobCreatedAt, fhash, fscan, coreVars, notFindVars>>

\* the TTL of a job key runs out while the call is under way
FindJobExpire(j) ==
    /\ fpc # "done"
    /\ Present(jobs[j])
    /\ jobs' = [jobs EXCEPT ![j] = NoJob]
    /\ jobExpired' = [jobExpired EXCEPT ![j] = TRUE]
    /\ jobCreatedAt' = [jobCreatedAt EXCEPT ![j] = 0]
    /\ UNCHANGED <<idxHash, idxHashTTL, idxUser, idxUserTTL>>
    /\ UNCHANGED <<envUseRedis, idemVars, upVars, taskVars, clientVars, fpc, fhash, fscan, fret,
                   notFindVars>>

FindNext ==
    \/ \E h \in Hashes : FindStart(h)
    \/ \E j \in JobIds : FindScan(j)
    \/ FindNone
    \/ \E j \in JobIds : FindJobExpire(j)

\* ===================================================================
\* Part V: what the upload handler and OCRService look cached work up by
\* ===================================================================

\* two settings of the pipeline options (OCR_MIN_CONF, OCR_MIN_LINES,
\* ENABLE_VISION_FALLBACK, the feature flags of main.py 181-193)
Configs == {"cfgA", "cfgB"}

\* what the pipeline produces for an image depends on the settings it ran under
OcrResult(image_hash, config) == [image |-> image_hash, config |-> config]

NoServed == [kind |-> "none", requested |-> "none", under |-> "none"]

\* main.py 195-200: the validator always supplies metadata["hash"]
\* (validation.py 140-142), so the lookup key is the SHA-256 of the content and
\* job_key, the only value computed from pipeline_config, is not used
UploadLookupKey(image_hash, pipeline_config) == image_hash

\* cache_manager.py 44-47 and 118-126: _make_key("ocr", image_hash)
OcrCacheKey(image_hash, config) == <<"ocr", image_hash>>

CfgInit ==
    /\ pipelineConfig = "cfgA"
    /\ jobConfig = [j \in JobIds |-> "none"]
    /\ ocrCache = [h \in Hashes |-> {}]
    /\ served = NoServed

\* the service is restarted with other settings (config.py reads the
\* environment once, at import); Redis keeps its keys, the in-process fallback
\* cache of CacheManager (cache_manager.py 41-42) starts empty
CfgDeploy(c) ==
    /\ c # pipelineConfig
    /\ pipelineConfig' = c
    /\ ocrCache' = IF ConfigUseRedis(envUseRedis) THEN ocrCache ELSE [h \in Hashes |-> {}]
    /\ UNCHANGED <<jobConfig, served, coreVars, notCfgVars>>

\* main.py 195-204: upload_image finds a completed job under the lookup key
CfgUploadHit(h, j) ==
    /\ coreRedis
    /\ j \in idxHash[UploadLookupKey(h, pipelineConfig)]
    /\ Present(jobs[j]) /\ jobs[j].state = "completed"
    /\ served' = [kind |-> "job", requested |-> pipelineConfig, under |-> jobConfig[j]]
    /\ UNCHANGED <<pipelineConfig, jobConfig, ocrCache, coreVars, notCfgVars>>

\* main.py 206-249: no completed job under the lookup key (or the lookup is
\* switched off); a job is created, processed under the current settings and
\* stored as completed or failed
CfgUploadNew(h, j, ok) ==
    /\ ~coreRedis \/ \A i \in idxHash[UploadLookupKey(h, pipelineConfig)] :
                        ~(Present(jobs[i]) /\ jobs[i].state = "completed")
    /\ ~Present(jobs[j]) /\ jobConfig[j] = "none"
    /\ jobs' = [jobs EXCEPT ![j] =
            ApplyUpdate(NewJob(h, NoUser), IF ok THEN "completed" ELSE "failed", 100,
                        IF ok THEN ResultOf(j) ELSE 0, IF ok THEN 0 ELSE 1)]
    /\ idxHash' = [idxHash EXCEPT ![h] = @ \cup {j}]
    /\ idxHashTTL' = [idxHashTTL EXCEPT ![h] = TRUE]
    /\ jobConfig' = [jobConfig EXCEPT ![j] = pipelineConfig]
    /\ served' = [kind |-> "new", requested |-> pipelineConfig, under |-> pipelineConfig]
    /\ UNCHANGED <<pipelineConfig, ocrCache, idxUser, idxUserTTL, jobExpired>>
    /\ UNCHANGED <<envUseRedis, idemVars, upVars, taskVars, clientVars, notCfgVars>>

\* ocr_service.py 57-64: process_image returns what is stored under the cache key
CfgProcessHit(h) ==
    /\ ocrCache[h] # {}
    /\ LET cached == CHOOSE r \in ocrCache[h] : TRUE
       IN served' = [kind |-> "ocr", requested |-> pipelineConfig, under |-> cached.config]
    /\ UNCHANGED <<pipelineConfig, jobConfig, ocrCache, coreVars, notCfgVars>>

\* ocr_service.py 66-114: a miss; the pipeline runs under the current settings
\* and, unless it raises, its result is stored under the cache key
CfgProcessMiss(h, ok) ==
    /\ ocrCache[h] = {}
    /\ ocrCache' = IF ok THEN [ocrCache EXCEPT ![h] = {OcrResult(h, pipelineConfig)}]
                   ELSE ocrCache
    /\ served' = [kind |-> IF ok THEN "fresh" ELSE "raised",
                  requested |-> pipelineConfig, under |-> pipelineConfig]
    /\ UNCHANGED <<pipelineConfig, jobConfig, coreVars, notCfgVars>>

\* cache_manager.py 78 / 82-86: the entry reaches its TTL or is evicted
CfgCacheExpire(h) ==
    /\ ocrCache[h] # {}
    /\ ocrCache' = [ocrCache EXCEPT ![h] = {}]
    /\ UNCHANGED <<pipelineConfig, jobConfig, served, coreVars, notCfgVars>>

CfgNext ==
    \/ \E c \in Configs : CfgDeploy(c)
    \/ \E h \in Hashes, j \in JobIds : CfgUploadHit(h, j)
    \/ \E h \in Hashes, j \in JobIds, ok \in BOOLEAN : CfgUploadNew(h, j, ok)
    \/ \E h \in Hashes : CfgProcessHit(h)
    \/ \E h \in Hashes, ok \in BOOLEAN : CfgProcessMiss(h, ok)
    \/ \E h \in Hashes : CfgCacheExpire(h)

\* ===================================================================
\* The wall clock
\* ===================================================================

\* how many times the clock advances in a behaviour
MaxTicks == 4

\* timedelta.seconds is the part of a duration below one day
DaySeconds == 86400

\* VisionFallbackCircuitBreaker.__init__ defaults (circuit_breaker.py 30-36)
failure_threshold == 5
recovery_timeout == 60
fallback_rate_threshold_pct == 15
monitoring_window == 900

\* the durations by which the clock advances between two calls
TickSteps == {1, recovery_timeout - 1, DaySeconds}

\* durations around recovery_timeout, all below one day
ShortSteps == {1, recovery_timeout - 1}

\* None, for an attribute that holds a time
NoTime == -1

ClockInit ==
    /\ now = 1
    /\ ticks = 0

Tick(d) ==
    /\ ticks < MaxTicks
    /\ now' = now + d
    /\ ticks' = ticks + 1
    /\ UNCHANGED <<coreVars, notClockVars>>

\* ===================================================================
\* Part VI: VisionFallbackCircuitBreaker (core/circuit_breaker.py)
\* ===================================================================

\* failures recorded on the Vision breaker in a behaviour
MaxFailures == 6
\* requests kept in fallback_history
MaxHistory == 1

\* settings.OCR_MIN_CONF (hundredths) and settings.OCR_MIN_LINES (config.py 12-13)
OCR_MIN_CONF == 62
OCR_MIN_LINES == 10

\* _adjust_thresholds: +0.05 up to 0.95, +2 up to 20 (circuit_breaker.py 175, 179)
ConfidenceStep == 5
ConfidenceCap == 95
LinesStep == 2
LinesCap == 20

\* OCR outcomes handed to the gate: mean confidence (hundredths), quantity lines
Confidences == {50, 64, 99}
LineCounts == {5, 30}

Min(a, b) == IF a < b THEN a ELSE b

VisionInit ==
    /\ ENABLE_VISION_FALLBACK \in BOOLEAN
    /\ vision_state = "closed"
    /\ failure_count = 0
    /\ circuit_opened_at = NoTime
    /\ fallback_history = <<>>
    /\ current_confidence_threshold = OCR_MIN_CONF
    /\ current_min_lines = OCR_MIN_LINES
    /\ vision_ret = "none"
    /\ vision_streak = 0
    /\ vision_probe_failed = FALSE

\* record_request (l.67-83): append, then keep the entries inside the window
record_request(used_fallback) ==
    /\ Len(fallback_history) < MaxHistory
    /\ LET cutoff == now - monitoring_window
           Recent(e) == e[1] > cutoff
       IN fallback_history' =
              SelectSeq(Append(fallback_history, <<now, used_fallback>>), Recent)
    /\ UNCHANGED <<ENABLE_VISION_FALLBACK, vision_state, failure_count, circuit_opened_at,
                   current_confidence_threshold, current_min_lines, vision_ret,
                   vision_streak, vision_probe_failed>>
    /\ UNCHANGED <<coreVars, notVisionVars>>

\* get_fallback_rate() > fallback_rate_threshold (l.85-96, l.121-122), without division
FallbackRateExceeded ==
    LET n == Len(fallback_history)
        recent_fallbacks == Cardinality({i \in 1..n : fallback_history[i][2]})
    IN /\ n > 0
       /\ recent_fallbacks * 100 > fallback_rate_threshold_pct * n

\* l.112-113: a time.time() value is truthy unless it is 0.0
RecoveryDue ==
    /\ circuit_opened_at # NoTime
    /\ circuit_opened_at # 0
    /\ now - circuit_opened_at > recovery_timeout

\* should_use_fallback (l.98-136)
should_use_fallback(confidence, lines) ==
    IF vision_state = "open" /\ ~RecoveryDue
    THEN /\ vision_ret' = "False"
         /\ UNCHANGED <<ENABLE_VISION_FALLBACK, vision_state, failure_count,
                        circuit_opened_at, fallback_history,
                        current_confidence_threshold, current_min_lines, vision_streak,
                        vision_probe_failed>>
         /\ UNCHANGED <<coreVars, notVisionVars>>
    ELSE /\ vision_state' = IF vision_state = "open" THEN "half_open" ELSE vision_state
         /\ vision_probe_failed' = (vision_state # "open" /\ vision_probe_failed)
         /\ IF FallbackRateExceeded
            THEN \* _adjust_thresholds (l.169-193)
                 /\ current_confidence_threshold' =
                        Min(ConfidenceCap, current_confidence_threshold + ConfidenceStep)
                 /\ current_min_lines' = Min(LinesCap, current_min_lines + LinesStep)
                 /\ vision_ret' = "False"
            ELSE /\ UNCHANGED <<current_confidence_threshold, current_min_lines>>
                 /\ vision_ret' = IF \/ confidence < current_confidence_threshold
                                       \/ lines < current_min_lines
                                    THEN "True" ELSE "False"
         /\ UNCHANGED <<ENABLE_VISION_FALLBACK, failure_count, circuit_opened_at,
                        fallback_history, vision_streak>>
         /\ UNCHANGED <<coreVars, notVisionVars>>

\* record_success (l.138-145)
record_success ==
    /\ IF vision_state = "half_open"
       THEN vision_state' = "closed" /\ failure_count' = 0
       ELSE UNCHANGED <<vision_state, failure_count>>
    /\ vision_streak' = 0
    /\ vision_probe_failed' = (vision_state # "half_open" /\ vision_probe_failed)
    /\ UNCHANGED <<ENABLE_VISION_FALLBACK, circuit_opened_at, fallback_history,
                   current_confidence_threshold, current_min_lines, vision_ret>>
    /\ UNCHANGED <<coreVars, notVisionVars>>

\* record_failure (l.147-167)
record_failure ==
    /\ failure_count < MaxFailures
    /\ failure_count' = failure_count + 1
    /\ vision_streak' = IF vision_state = "closed" /\ failure_count + 1 < failure_threshold
                        THEN vision_streak + 1 ELSE 0
    /\ vision_probe_failed' = (vision_state = "half_open" \/ vision_probe_failed)
    /\ IF failure_count + 1 >= failure_threshold /\ vision_state # "open"
       THEN vision_state' = "open" /\ circuit_opened_at' = now
       ELSE UNCHANGED <<vision_state, circuit_opened_at>>
    /\ UNCHANGED <<ENABLE_VISION_FALLBACK, fallback_history,
                   current_confidence_threshold, current_min_lines, vision_ret>>
    /\ UNCHANGED <<coreVars, notVisionVars>>

\* reset (l.216-224)
VisionReset ==
    /\ vision_state' = "closed"
    /\ failure_count' = 0
    /\ circuit_opened_at' = NoTime
    /\ current_confidence_threshold' = settings_OCR_MIN_CONF
    /\ current_min_lines' = settings_OCR_MIN_LINES
    /\ vision_streak' = 0
    /\ vision_probe_failed' = FALSE
    /\ UNCHANGED <<ENABLE_VISION_FALLBACK, fallback_history, vision_ret>>
    /\ UNCHANGED <<coreVars, notVisionVars>>

VisionNext ==
    \/ \E d \in TickSteps : Tick(d)
    \/ \E used \in BOOLEAN : record_request(used)
    \/ \E c \in Confidences, l \in LineCounts : should_use_fallback(c, l)
    \/ record_success
    \/ record_failure
    \/ VisionReset

\* ===================================================================
\* Part VII: resilience.CircuitBreaker (core/resilience.py)
\* ===================================================================

\* the vision_api_breaker instance (resilience.py 326-331); success_threshold
\* keeps its default (l.36)
cb_failure_threshold == 3
cb_recovery_timeout == 60
success_threshold == 2

\* failures counted by resilience.CircuitBreaker at one time
MaxCbFailures == 4

CbInit ==
    /\ cb_state = "closed"
    /\ failures = 0
    /\ successes = 0
    /\ last_failure_time = NoTime
    /\ cb_ret = "none"

\* _should_attempt_reset (l.95-100): timedelta.seconds, not total_seconds()
should_attempt_reset ==
    /\ last_failure_time # NoTime
    /\ ((now - last_failure_time) % DaySeconds) >= cb_recovery_timeout

\* _on_success (l.102-112), entered in state st
on_success(st) ==
    IF st = "half_open"
    THEN IF successes + 1 >= success_threshold
         THEN cb_state' = "closed" /\ failures' = 0 /\ successes' = 0
         ELSE cb_state' = st /\ successes' = successes + 1 /\ UNCHANGED failures
    ELSE cb_state' = st /\ failures' = 0 /\ UNCHANGED successes

\* _on_failure that keeps the earlier failure time
on_failure_keeps_timer(st) ==
    /\ failures' = failures + 1
    /\ last_failure_time' = IF last_failure_time = NoTime THEN now ELSE last_failure_time
    /\ IF st = "half_open"
       THEN cb_state' = "open" /\ successes' = 0
       ELSE /\ cb_state' = IF failures + 1 >= cb_failure_threshold THEN "open" ELSE st
            /\ UNCHANGED successes

\* _on_failure (l.114-125), entered in state st
on_failure(st) ==
    /\ failures' = failures + 1
    /\ last_failure_time' = now
    /\ IF st = "half_open"
       THEN cb_state' = "open" /\ successes' = 0
       ELSE /\ cb_state' = IF failures + 1 >= cb_failure_threshold THEN "open" ELSE st
            /\ UNCHANGED successes

\* call / call_async (l.61-93) around a function that returns (ok) or raises
call(ok) ==
    /\ ok \/ failures < MaxCbFailures
    /\ IF cb_state = "open" /\ ~should_attempt_reset
       THEN /\ cb_ret' = "rejected"
            /\ UNCHANGED <<cb_state, failures, successes, last_failure_time>>
       ELSE LET st == IF cb_state = "open" THEN "half_open" ELSE cb_state
            IN IF ok
               THEN on_success(st) /\ cb_ret' = "returned" /\ UNCHANGED last_failure_time
               ELSE on_failure(st) /\ cb_ret' = "raised"
    /\ UNCHANGED <<coreVars, notCbVars>>

\* reset (l.127-132)
CbReset ==
    /\ cb_state' = "closed"
    /\ failures' = 0
    /\ successes' = 0
    /\ last_failure_time' = NoTime
    /\ UNCHANGED cb_ret
    /\ UNCHANGED <<coreVars, notCbVars>>

CbNext ==
    \/ \E d \in TickSteps : Tick(d)
    \/ \E ok \in BOOLEAN : call(ok)
    \/ CbReset

\* ===================================================================
\* Part VIII: rate limiting (core/rate_limit.py, core/auth_middleware.py)
\* ===================================================================

\* requests_per_minute the RateLimiter is constructed with
RequestsPerMinute == 2
\* requests the client sends in a behaviour
MaxRequests == 5

\* RateLimiter.window_seconds (rate_limit.py 52) and deque(maxlen=100) (l.29)
window_seconds == 60
DequeMaxLen == 100

\* RATE_LIMITED_PUBLIC["/api/ocr/upload"] (auth_middleware.py 33) and the
\* windows of _check_rate_limit (l.140, l.151)
upload_requests_per_minute == 10
upload_burst == 3
minute_window == 60
burst_window == 5

Limiters == {"export", "upload"}

\* the minute limit N of each limiter
MinuteLimit(limiter) ==
    IF limiter = "export" THEN RequestsPerMinute ELSE upload_requests_per_minute

RateInit ==
    /\ rl_zset = <<>>
    /\ memory_storage = <<>>
    /\ rate_limits = <<>>
    /\ last_check = [limiter |-> "none", allowed |-> FALSE]
    /\ allowed_at = [l \in Limiters |-> <<>>]
    /\ num_requests = 0

\* RateLimiter.use_redis (rate_limit.py 19-26, 53), Redis being reachable
use_redis == ConfigUseRedis(envUseRedis)

\* the decision is recorded with the history of allowed requests
Decide(limiter, allowed) ==
    /\ last_check' = [limiter |-> limiter, allowed |-> allowed]
    /\ allowed_at' = IF allowed
                     THEN [allowed_at EXCEPT ![limiter] = Append(@, now)]
                     ELSE allowed_at
    /\ num_requests' = num_requests + 1

\* _check_redis (l.75-119): ZREMRANGEBYSCORE 0 window_start, ZCARD, ZADD now,
\* all in one pipeline; two requests never read the same time.time()
check_redis ==
    LET window_start == now - window_seconds
        InWindow(t) == t > window_start
        retained == SelectSeq(rl_zset, InWindow)
        request_count == Len(retained)
    IN /\ rl_zset' = Append(retained, now)
       /\ Decide("export", request_count < RequestsPerMinute)
       /\ UNCHANGED memory_storage

\* _check_memory (l.121-146)
check_memory ==
    LET window_start == now - window_seconds
        NotOld(t) == ~(t < window_start)
        request_times == SelectSeq(memory_storage, NotOld)
        room == IF Len(request_times) = DequeMaxLen THEN Tail(request_times)
                                                    ELSE request_times
    IN /\ IF Len(request_times) >= RequestsPerMinute
          THEN memory_storage' = request_times /\ Decide("export", FALSE)
          ELSE memory_storage' = Append(room, now) /\ Decide("export", TRUE)
       /\ UNCHANGED rl_zset

\* check_request (l.148-187) on an export endpoint
check_request ==
    /\ num_requests < MaxRequests
    /\ IF use_redis THEN check_redis ELSE check_memory
    /\ UNCHANGED rate_limits
    /\ UNCHANGED <<coreVars, notRateVars>>

\* AuthMiddleware._check_rate_limit (auth_middleware.py 124-171) for
\* /api/ocr/upload
check_rate_limit ==
    /\ num_requests < MaxRequests
    /\ LET cutoff == now - minute_window
           recent_cutoff == now - burst_window
           InMinute(t) == t > cutoff
           requests == SelectSeq(rate_limits, InMinute)
           recent_requests ==
               Cardinality({i \in 1..Len(requests) : requests[i] > recent_cutoff})
       IN IF Len(requests) >= upload_requests_per_minute
          THEN rate_limits' = requests /\ Decide("upload", FALSE)
          ELSE IF recent_requests >= upload_burst
          THEN rate_limits' = requests /\ Decide("upload", FALSE)
          ELSE rate_limits' = Append(requests, now) /\ Decide("upload", TRUE)
    /\ UNCHANGED <<rl_zset, memory_storage>>
    /\ UNCHANGED <<coreVars, notRateVars>>

RateNext ==
    \/ \E d \in ShortSteps : Tick(d)
    \/ check_request
    \/ check_rate_limit

\* ===================================================================
\* Part IX: _rate_limit of the original upload endpoint (main_original.py)
\* ===================================================================

\* client addresses
NumIps == 2
Ips == 1..NumIps

\* min_interval=0.5 (main_original.py 36), in tenths of a second
min_interval_tenths == 5
\* the clean-up horizon (l.60)
orig_cutoff_seconds == 60

StatusOk == 200
StatusTooMany == 429

OrigInit ==
    /\ last_req = [ip \in Ips |-> NoTime]
    /\ orig_status = 0
    /\ orig_ip = 0
    /\ prev_req_at = [ip \in Ips |-> NoTime]
    /\ orig_requests = 0

\* l.52: client_ip in _last_req and now - _last_req[client_ip] < min_interval
TooSoon(ip) ==
    /\ last_req[ip] # NoTime
    /\ (now - last_req[ip]) * 10 < min_interval_tenths

\* l.59-62: _last_req.clear() runs first; the comprehension handed to update()
\* then iterates the dict that was just emptied
CleanOldEntries(entries) ==
    LET cutoff == now - orig_cutoff_seconds
        cleared == [ip \in DOMAIN entries |-> NoTime]
    IN [ip \in Ips |-> IF cleared[ip] # NoTime /\ cleared[ip] > cutoff
                       THEN cleared[ip] ELSE NoTime]

\* _rate_limit (l.36-62) for a request of client ip
rate_limit(ip) ==
    /\ orig_requests < MaxRequests
    /\ orig_requests' = orig_requests + 1
    /\ orig_ip' = ip
    /\ prev_req_at' = [prev_req_at EXCEPT ![ip] = now]
    /\ IF TooSoon(ip)
       THEN /\ orig_status' = StatusTooMany
            /\ UNCHANGED last_req
       ELSE /\ orig_status' = StatusOk
            /\ last_req' = CleanOldEntries([last_req EXCEPT ![ip] = now])
    /\ UNCHANGED <<coreVars, notOrigVars>>

OrigNext ==
    \/ \E d \in ShortSteps : Tick(d)
    \/ \E ip \in Ips : rate_limit(ip)

\* ===================================================================
\* Part X: WebSocket subscriptions to one job (api/websocket.py)
\* ===================================================================

\* connections opened for the job
NumSubs == 1
\* frames one connection receives in a behaviour
MaxFrames == 4

Subs == 1..NumSubs

\* the statuses the job writer produces, in order, after the queued record
WriterSteps ==
    << [state |-> "processing", progress |-> 20],
       [state |-> "completed", progress |-> 100] >>

QueuedStatus == [state |-> "queued", progress |-> 0]

\* what the job writer has stored after n updates
WriterStatus(n) == IF n = 0 THEN QueuedStatus ELSE WriterSteps[n]

\* get_job_status l.98-103
UnknownStatus == [state |-> "unknown", progress |-> 0]

NoStatus == [state |-> "none", progress |-> 0]

WsInit ==
    /\ ws_pc = [s \in Subs |-> "idle"]
    /\ active_connections = {}
    /\ connection_info = {}
    /\ frames = [s \in Subs |-> <<>>]
    /\ ws_pending = <<>>
    /\ ws_store = [format |-> "json", status |-> QueuedStatus]
    /\ ws_memory = NoStatus
    /\ writer_pos = 0
    /\ writer_at_connect = [s \in Subs |-> 0]

\* CacheManager.get_job_status (cache_manager.py 53-65, 153-156): with Redis
\* the value is unpickled, and a record the job writer stored as JSON
\* (job_storage.py 99-104, tasks.py 66-70) raises in pickle.loads, which get()
\* turns into None; without Redis only memory_cache is read
cache_get_job_status ==
    IF ConfigUseRedis(envUseRedis)
    THEN IF ws_store.format = "pickle" THEN ws_store.status ELSE NoStatus
    ELSE ws_memory

\* ConnectionManager.get_job_status (l.95-104)
get_job_status ==
    IF cache_get_job_status = NoStatus THEN UnknownStatus ELSE cache_get_job_status

StatusFrame(status) ==
    [type |-> "status", state |-> status.state, progress |-> status.progress]

UpdateFrame(status) ==
    [type |-> "job_update", state |-> status.state, progress |-> status.progress]

CloseFrame(status) ==
    [type |-> "close", state |-> status.state, progress |-> status.progress]


\* the socket still takes frames: the endpoint has not returned and the client
\* has not gone
SocketOpen(s) == ws_pc[s] = "loop"

\* ConnectionManager.disconnect (l.47-65)
disconnect(s) ==
    /\ active_connections' = IF s \in connection_info
                             THEN active_connections \ {s} ELSE active_connections
    /\ connection_info' = connection_info \ {s}

\* websocket_endpoint l.141 -> ConnectionManager.connect (l.25-45)
WsConnect(s) ==
    /\ ws_pc[s] = "idle"
    /\ ws_pc' = [ws_pc EXCEPT ![s] = "loop"]
    /\ active_connections' = active_connections \cup {s}
    /\ connection_info' = connection_info \cup {s}
    /\ frames' = [frames EXCEPT ![s] = Append(@, StatusFrame(get_job_status))]
    /\ writer_at_connect' = [writer_at_connect EXCEPT ![s] = writer_pos]
    /\ UNCHANGED <<ws_pending, ws_store, ws_memory, writer_pos>>
    /\ UNCHANGED <<coreVars, notWsVars>>

\* l.148-156: the client asks for the status
WsStatusRequest(s) ==
    /\ ws_pc[s] = "loop"
    /\ Len(frames[s]) < MaxFrames
    /\ frames' = [frames EXCEPT ![s] = Append(@, StatusFrame(get_job_status))]
    /\ UNCHANGED <<ws_pc, active_connections, connection_info, ws_pending, ws_store,
                   ws_memory, writer_pos, writer_at_connect>>
    /\ UNCHANGED <<coreVars, notWsVars>>

\* l.160-173: the periodic status; on a terminal state a close frame and break
WsPeriodic(s) ==
    /\ ws_pc[s] = "loop"
    /\ Len(frames[s]) + 2 <= MaxFrames
    /\ LET status == get_job_status
       IN IF status.state \in TerminalStates
          THEN /\ frames' = [frames EXCEPT ![s] =
                                Append(Append(@, StatusFrame(status)), CloseFrame(status))]
               /\ ws_pc' = [ws_pc EXCEPT ![s] = "returned"]
          ELSE /\ frames' = [frames EXCEPT ![s] = Append(@, StatusFrame(status))]
               /\ UNCHANGED ws_pc
    /\ UNCHANGED <<active_connections, connection_info, ws_pending, ws_store,
                   ws_memory, writer_pos, writer_at_connect>>
    /\ UNCHANGED <<coreVars, notWsVars>>

\* l.175-176: the client goes away, receive_text raises WebSocketDisconnect
WsClientGone(s) ==
    /\ ws_pc[s] = "loop"
    /\ ws_pc' = [ws_pc EXCEPT ![s] = "disconnected"]
    /\ disconnect(s)
    /\ UNCHANGED <<frames, ws_pending, ws_store, ws_memory, writer_pos, writer_at_connect>>
    /\ UNCHANGED <<coreVars, notWsVars>>

\* the job writer stores its next status (JSON under job:<id>) and
\* notify_job_update (l.183-196) -> send_job_update (l.67-75) creates one
\* _send_safe task per connection registered at that moment
WriterUpdate ==
    /\ writer_pos < Len(WriterSteps)
    /\ Len(ws_pending) < MaxFrames
    /\ writer_pos' = writer_pos + 1
    /\ ws_store' = [format |-> "json", status |-> WriterSteps[writer_pos + 1]]
    /\ LET targets == active_connections
           Order(n) == CHOOSE q \in [1..n -> targets] :
                           \A i, j \in 1..n : i < j => q[i] < q[j]
           tasks == IF targets = {} THEN <<>> ELSE Order(Cardinality(targets))
       IN ws_pending' = ws_pending \o
              [i \in 1..Len(tasks) |->
                  [to |-> tasks[i], frame |-> UpdateFrame(WriterSteps[writer_pos + 1])]]
    /\ UNCHANGED <<ws_pc, active_connections, connection_info, frames, ws_memory,
                   writer_at_connect>>
    /\ UNCHANGED <<coreVars, notWsVars>>

\* _send_safe (l.77-83): the oldest task runs; a send on a socket that is no
\* longer open raises and the connection is dropped
SendSafe ==
    /\ ws_pending # <<>>
    /\ LET t == Head(ws_pending)
       IN IF SocketOpen(t.to)
          THEN /\ Len(frames[t.to]) < MaxFrames
               /\ frames' = [frames EXCEPT ![t.to] = Append(@, t.frame)]
               /\ UNCHANGED <<active_connections, connection_info>>
          ELSE /\ disconnect(t.to)
               /\ UNCHANGED frames
    /\ ws_pending' = Tail(ws_pending)
    /\ UNCHANGED <<ws_pc, ws_store, ws_memory, writer_pos, writer_at_connect>>
    /\ UNCHANGED <<coreVars, notWsVars>>

\* CacheManager.set_job_status (cache_manager.py 66-90, 148-151): pickled into
\* Redis under the same key job:<id>, or put in memory_cache
set_job_status(status) ==
    /\ IF ConfigUseRedis(envUseRedis)
       THEN ws_store' = [format |-> "pickle", status |-> status] /\ UNCHANGED ws_memory
       ELSE ws_memory' = status /\ UNCHANGED ws_store
    /\ UNCHANGED <<ws_pc, active_connections, connection_info, frames, ws_pending,
                   writer_pos, writer_at_connect>>
    /\ UNCHANGED <<coreVars, notWsVars>>

WsNext ==
    \/ \E s \in Subs : WsConnect(s)
    \/ \E s \in Subs : WsStatusRequest(s)
    \/ \E s \in Subs : WsPeriodic(s)
    \/ \E s \in Subs : WsClientGone(s)
    \/ WriterUpdate
    \/ SendSafe
    \/ \E i \in 1..Len(WriterSteps) : set_job_status(WriterSteps[i])

\* ===================================================================
\* Part XI: job keys with their expiry times, and per-user deletion
\* (core/job_storage.py, core/retention.py)
\* ===================================================================

\* job ids in use
NumRecords == 2
\* principals
NumOwners == 2

RetJobs == 1..NumRecords
Owners == 1..NumOwners
\* the image hashes of the uploads
RetHashes == {1}

HourSeconds == 3600

\* JobStorage.__init__ (job_storage.py:21): ttl_hours of the module's
\* job_storage = JobStorage() instance (l.351)
ttl_hours == 24

\* config.py:37
DATA_RETENTION_JOBS_HOURS == 1

\* int(self.ttl.total_seconds())
ttl_seconds == ttl_hours * HourSeconds

JobsRetention == DATA_RETENTION_JOBS_HOURS * HourSeconds

\* the clock advances by half the TTL of the keys
RetSteps == {(ttl_hours \div 2) * HourSeconds}

NoRec == [created_at |-> NoTime, expire_at |-> NoTime, image_hash |-> 0, user_id |-> NoUser]

NoIdx == [members |-> {}, expire_at |-> NoTime]

\* Redis shows a key until its expiry time
Alive(k) == k.expire_at # NoTime /\ now < k.expire_at

RetInit ==
    /\ rec = [j \in RetJobs |-> NoRec]
    /\ hash_idx = [h \in RetHashes |-> NoIdx]
    /\ user_idx = [u \in Owners |-> NoIdx]
    /\ del_ret = [user_id |-> NoUser, deleted_keys |-> 0]

\* SADD / ZADD on the index key followed by EXPIRE (job_storage.py 108-126)
IndexAdd(idx, job_id) ==
    [members |-> (IF Alive(idx) THEN idx.members ELSE {}) \cup {job_id},
     expire_at |-> now + ttl_seconds]

\* JobStorage.create_job (job_storage.py 62-132)
create_job(job_id, image_hash, user_id) ==
    /\ ~Alive(rec[job_id])
    /\ rec' = [rec EXCEPT ![job_id] =
                  [created_at |-> now, expire_at |-> now + ttl_seconds,
                   image_hash |-> image_hash, user_id |-> user_id]]
    /\ hash_idx' = IF image_hash # 0
                   THEN [hash_idx EXCEPT ![image_hash] = IndexAdd(@, job_id)]
                   ELSE hash_idx
    /\ user_idx' = IF user_id # NoUser
                   THEN [user_idx EXCEPT ![user_id] = IndexAdd(@, job_id)]
                   ELSE user_idx
    /\ UNCHANGED del_ret
    /\ UNCHANGED <<coreVars, notRetVars>>

\* JobStorage.update_job (job_storage.py 153-202): the record is written back
\* with SET ... EX ttl
update_job(job_id) ==
    /\ Alive(rec[job_id])
    /\ rec' = [rec EXCEPT ![job_id].expire_at = now + ttl_seconds]
    /\ UNCHANGED <<hash_idx, user_idx, del_ret>>
    /\ UNCHANGED <<coreVars, notRetVars>>

\* an identifier as it is written into a key
IdText(i) == <<"1", "2", "3">>[i]

\* _job_key and _index_key (job_storage.py 54-60), as the segments between
\* the colons
JobKey(job_id) == <<"job", IdText(job_id)>>

IndexKey(index_type, value) == <<"idx", index_type, IdText(value)>>

\* the keys Redis holds
RedisKeys ==
    {JobKey(j) : j \in {i \in RetJobs : Alive(rec[i])}}
        \cup {IndexKey("hash", h) : h \in {i \in RetHashes : Alive(hash_idx[i])}}
        \cup {IndexKey("user", u) : u \in {i \in Owners : Alive(user_idx[i])}}

\* retention.py 300-306: the patterns of delete_user_data, "*" standing for
\* any run of characters
Patterns(user_id) ==
    { <<"job", "*", "user", IdText(user_id)>>,
      <<"result", "*", "user", IdText(user_id)>>,
      <<"hash", "*", "user", IdText(user_id)>>,
      <<"session", IdText(user_id), "*">>,
      <<"rate_limit", IdText(user_id)>> }

\* SCAN MATCH: the literal segments of the pattern are found at the two ends
\* of the key, and "*" takes what lies between
Matches(pattern, key) ==
    IF \A i \in 1..Len(pattern) : pattern[i] # "*"
    THEN key = pattern
    ELSE LET star == CHOOSE i \in 1..Len(pattern) : pattern[i] = "*"
             after == Len(pattern) - star
         IN /\ Len(key) >= Len(pattern)
            /\ \A i \in 1..(star - 1) : key[i] = pattern[i]
            /\ \A i \in 1..after : key[Len(key) - after + i] = pattern[star + i]

\* redis_client.delete(key) for every key of the set
DeleteKeys(keys) ==
    /\ rec' = [j \in RetJobs |-> IF JobKey(j) \in keys THEN NoRec ELSE rec[j]]
    /\ hash_idx' = [h \in RetHashes |->
                       IF IndexKey("hash", h) \in keys THEN NoIdx ELSE hash_idx[h]]
    /\ user_idx' = [u \in Owners |->
                       IF IndexKey("user", u) \in keys THEN NoIdx ELSE user_idx[u]]

\* retention.delete_user_data (retention.py 285-323)
delete_user_data(user_id) ==
    /\ LET found == {k \in RedisKeys : \E p \in Patterns(user_id) : Matches(p, k)}
       IN /\ DeleteKeys(found)
          /\ del_ret' = [user_id |-> user_id, deleted_keys |-> Cardinality(found)]
    /\ UNCHANGED <<coreVars, notRetVars>>

RetNext ==
    \/ \E d \in RetSteps : Tick(d)
    \/ \E j \in RetJobs, h \in {0} \cup RetHashes, u \in {NoUser} \cup Owners :
          create_job(j, h, u)
    \/ \E j \in RetJobs : update_job(j)
    \/ \E u \in Owners : delete_user_data(u)

\* ===================================================================
\* Part XII: DELETE /api/gdpr/data/{identifier} (routers/gdpr.py)
\* ===================================================================

StatusBadRequest == 400
StatusServerError == 500

UuidLength == 36
Sha256HexLength == 64

\* identifiers by what the handler looks at: the length, whether a "-" occurs,
\* and (for the caller) whether all characters are hexadecimal digits
Identifiers ==
    [length : {10, UuidLength, Sha256HexLength}, dash : BOOLEAN, hex : BOOLEAN]
        \ {i \in [length : {10, UuidLength, Sha256HexLength}, dash : BOOLEAN, hex : BOOLEAN] :
              i.dash /\ i.hex}

NoIdentifier == [length |-> 0, dash |-> FALSE, hex |-> FALSE]

GdprInit ==
    /\ gd_identifier = NoIdentifier
    /\ gd_status = 0

\* what the try block of delete_data raises (gdpr.py 29-78):
\*  - l.38-40: the job-id branch calls job_storage.delete_job, which JobStorage
\*    does not define (job_storage.py): AttributeError
\*  - l.48-50: the hash branch imports redis_client from app.cache, which
\*    defines no such name (cache.py): ImportError
\*  - l.63-67: any other identifier: HTTPException(400)
delete_data_raises(identifier) ==
    IF identifier.dash /\ identifier.length = UuidLength THEN "AttributeError"
    ELSE IF identifier.length = Sha256HexLength THEN "ImportError"
    ELSE "HTTPException"

\* l.82-88: except Exception catches whatever the try block raised,
\* HTTPException included, and raises HTTPException(500)
delete_data_status(identifier) ==
    IF delete_data_raises(identifier) \in {"AttributeError", "ImportError", "HTTPException"}
    THEN StatusServerError
    ELSE StatusOk

\* delete_data (gdpr.py 24-88); no branch reaches a delete
delete_data(identifier) ==
    /\ gd_identifier' = identifier
    /\ gd_status' = delete_data_status(identifier)
    /\ UNCHANGED <<coreVars, notGdprVars>>

GdprNext ==
    \/ \E j \in RetJobs, h \in {0} \cup RetHashes, u \in {NoUser} \cup Owners :
          create_job(j, h, u)
    \/ \E i \in Identifiers : delete_data(i)

\* ===================================================================
\* Part XIII: CacheManager get / set (cache_manager.py)
\* ===================================================================

\* keys and values the callers use
NumCacheKeys == 2
NumCacheValues == 2

CacheKeys == 1..NumCacheKeys
CacheValues == 1..NumCacheValues

\* cache_manager.py 83-88: above MemoryCap entries the oldest TrimCount go
MemoryCap == 1000
TrimCount == 100

NoValue == [kind |-> "None"]

ValueOf(v) == [kind |-> "value", value |-> v]

Absent == [kind |-> "absent"]

\* pickle.dumps / pickle.loads (l.59, l.77)
PickleDumps(v) == [kind |-> "pickle", value |-> v]

PickleLoads(data) == ValueOf(data.value)

\* CacheManager.__init__ (l.21-42) with Redis reachable: enabled follows
\* USE_REDIS
CmInit ==
    /\ redis_up = TRUE
    /\ cm_enabled = ConfigUseRedis(envUseRedis)
    /\ cm_redis = [k \in CacheKeys |-> Absent]
    /\ memory_cache = <<>>
    /\ cm_ret = [op |-> "none"]

\* dict.get on memory_cache
MemoryGet(cache, key) ==
    IF \E i \in 1..Len(cache) : cache[i].key = key
    THEN ValueOf(cache[CHOOSE i \in 1..Len(cache) : cache[i].key = key].value)
    ELSE NoValue

\* memory_cache[key] = value: a key already present keeps its place
MemoryPut(cache, key, value) ==
    IF \E i \in 1..Len(cache) : cache[i].key = key
    THEN [i \in 1..Len(cache) |->
             IF cache[i].key = key THEN [key |-> key, value |-> value] ELSE cache[i]]
    ELSE Append(cache, [key |-> key, value |-> value])

\* l.83-88
MemoryTrim(cache) ==
    IF Len(cache) > MemoryCap THEN SubSeq(cache, TrimCount + 1, Len(cache)) ELSE cache

\* CacheManager.get (l.53-64): what get(key) returns in the current state. A
\* Redis error is caught and logged (l.62-63) and None is returned
cache_get(key) ==
    IF cm_enabled
    THEN IF ~redis_up THEN NoValue
         ELSE IF cm_redis[key] # Absent THEN PickleLoads(cm_redis[key]) ELSE NoValue
    ELSE MemoryGet(memory_cache, key)

CmGet(key) ==
    /\ cm_ret' = [op |-> "get", key |-> key, ret |-> cache_get(key)]
    /\ UNCHANGED <<redis_up, cm_enabled, cm_redis, memory_cache>>
    /\ UNCHANGED <<coreVars, notCmVars>>

\* CacheManager.set (l.66-90): a Redis error is caught and logged (l.88-89)
\* and False is returned
cache_set(key, value) ==
    IF cm_enabled
    THEN IF redis_up
         THEN /\ cm_redis' = [cm_redis EXCEPT ![key] = PickleDumps(value)]
              /\ cm_ret' = [op |-> "set", key |-> key, ret |-> "True"]
              /\ UNCHANGED memory_cache
         ELSE /\ cm_ret' = [op |-> "set", key |-> key, ret |-> "False"]
              /\ UNCHANGED <<cm_redis, memory_cache>>
    ELSE /\ memory_cache' = MemoryTrim(MemoryPut(memory_cache, key, value))
         /\ cm_ret' = [op |-> "set", key |-> key, ret |-> "True"]
         /\ UNCHANGED cm_redis

CmSet(key, value) ==
    /\ cache_set(key, value)
    /\ UNCHANGED <<redis_up, cm_enabled>>
    /\ UNCHANGED <<coreVars, notCmVars>>

\* the Redis server becomes unreachable, or reachable again
RedisFails ==
    /\ redis_up
    /\ redis_up' = FALSE
    /\ UNCHANGED <<cm_enabled, cm_redis, memory_cache, cm_ret>>
    /\ UNCHANGED <<coreVars, notCmVars>>

RedisRecovers ==
    /\ ~redis_up
    /\ redis_up' = TRUE
    /\ UNCHANGED <<cm_enabled, cm_redis, memory_cache, cm_ret>>
    /\ UNCHANGED <<coreVars, notCmVars>>

\* the process restarts and CacheManager.__init__ (l.21-42) runs again:
\* enabled follows USE_REDIS unless the ping fails
CmRestart ==
    /\ cm_enabled' = (ConfigUseRedis(envUseRedis) /\ redis_up)
    /\ memory_cache' = <<>>
    /\ cm_ret' = [op |-> "none"]
    /\ UNCHANGED <<redis_up, cm_redis>>
    /\ UNCHANGED <<coreVars, notCmVars>>

CmNext ==
    \/ \E k \in CacheKeys : CmGet(k)
    \/ \E k \in CacheKeys, v \in CacheValues : CmSet(k, v)
    \/ RedisFails
    \/ RedisRecovers
    \/ CmRestart

\* ===================================================================
\* Part XIV: calls to the Vision provider
\* (pipeline/ocr.py, pipeline/vision_fallback.py)
\* ===================================================================

\* images submitted
NumImages == 3

Images == 1..NumImages

\* VisionFallback.__init__ (vision_fallback.py:26)
max_retries == 2

\* ocr.py:176-179: confidence given to every line of the provider's text, in percent
VisionConf == 95

\* vision_fallback.py:222: confidence of a text (non-JSON) answer, in percent
TextParseConfidence == 85

\* os.getenv("OPENAI_API_KEY") / settings.OPENAI_API_KEY
ApiKeys == {"set", "TO_BE_SET", "missing"}

\* what one chat.completions.create call does: raises, answers with
\* content None, with an empty text, or with a list of card lines
ProviderAnswers == {"exception", "none_content", "empty_text", "text"}

\* the card lines in the provider's text answer
VisionLines == 4

\* run_easyocr (ocr.py 45-72): the primary OCR result for an image
run_easyocr(img) == [spans |-> img, mean_conf |-> 30 + 10 * img]

Returned(value) == [kind |-> "returned", value |-> value]

RaisedError(name) == [kind |-> "raised", error |-> name]

NoCall == [fn |-> "none"]

VfInit ==
    /\ vf_img = 1
    /\ vf_call = NoCall
    /\ vf_ret = [kind |-> "none"]

\* run_vision_fallback (ocr.py 118-184): what the call hands back
vision_fallback_result(img, api_key, answer) ==
    IF api_key \in {"missing", "TO_BE_SET"} THEN Returned(run_easyocr(img))
    ELSE IF answer = "exception" THEN Returned(run_easyocr(img))
    ELSE IF answer \in {"none_content", "empty_text"} THEN Returned(run_easyocr(img))
    ELSE Returned([spans |-> VisionLines, mean_conf |-> VisionConf])

run_vision_fallback(api_key, answer) ==
    /\ vf_call' = [fn |-> "run_vision_fallback", api_key |-> api_key,
                   answers |-> <<answer>>]
    /\ vf_ret' = vision_fallback_result(vf_img, api_key, answer)
    /\ UNCHANGED vf_img
    /\ UNCHANGED <<coreVars, notVfVars>>

\* _parse_text_response and _convert_to_ocr_format (vision_fallback.py
\* 188-260) on a text answer with n card lines
ConvertText(n) == [spans |-> n, mean_conf |-> IF n = 0 THEN 0 ELSE TextParseConfidence]

\* the retry loop of process_with_vision (vision_fallback.py 131-186):
\* json.loads(None) raises TypeError, which the loop treats as a failed
\* attempt; an empty text is not JSON and goes through the text parser
RECURSIVE VisionAttempts(_, _)
VisionAttempts(answers, attempt) ==
    LET a == answers[attempt]
    IN IF a = "text" THEN Returned(ConvertText(VisionLines))
       ELSE IF a = "empty_text" THEN Returned(ConvertText(0))
       ELSE IF attempt = max_retries
            THEN RaisedError(IF a = "none_content" THEN "TypeError" ELSE "APIError")
            ELSE VisionAttempts(answers, attempt + 1)

\* VisionFallback.process_with_vision (vision_fallback.py 85-186)
vision_result(api_key, answers) ==
    IF api_key = "missing" THEN RaisedError("ValueError")
    ELSE VisionAttempts(answers, 1)

process_with_vision(api_key, answers) ==
    /\ vf_call' = [fn |-> "process_with_vision", api_key |-> api_key, answers |-> answers]
    /\ vf_ret' = vision_result(api_key, answers)
    /\ UNCHANGED vf_img
    /\ UNCHANGED <<coreVars, notVfVars>>

\* the next image
NextImage(img) ==
    /\ img # vf_img
    /\ vf_img' = img
    /\ vf_call' = NoCall
    /\ vf_ret' = [kind |-> "none"]
    /\ UNCHANGED <<coreVars, notVfVars>>

VfNext ==
    \/ \E k \in ApiKeys, a \in ProviderAnswers : run_vision_fallback(k, a)
    \/ \E k \in ApiKeys, as \in [1..max_retries -> ProviderAnswers] :
          process_with_vision(k, as)
    \/ \E img \in Images : NextImage(img)

\* ===================================================================
\* Part XV: deck parsing (services/ocr_service.py)
\* ===================================================================

\* card lines in one input
MaxLines == 22

\* ocr_service.py:488: fewer parsed entries than this and the result is dropped
MinEntries == 20
\* ocr_service.py:470: quantity units of the main deck
MainSize == 60
\* ocr_service.py:444: largest quantity a line may carry
MaxQty == 20
\* ocr_service.py:417: lines looked at for the MTGO header
HeaderWindow == 10

\* the quantity written on every card line of an input
LineQtys == {4, 7, 21}

\* a span, by what the parser tests on its text:
\*   "card"      "<qty> <name>"
\*   "marker"    "Sideboard"
\*   "mtgo"      a header "MTGO"
\*   "mtgo_deck" a header "MTGO Deck"
CardSpan(qty, name) == [kind |-> "card", name |-> name, qty |-> qty]

MarkerSpan == [kind |-> "marker", name |-> 0, qty |-> 0]

HeaderSpan(kind) == [kind |-> kind, name |-> 0, qty |-> 0]

Headers == {"none", "mtgo", "mtgo_deck"}

\* an input: an optional header, n card lines all carrying quantity q, and a
\* sideboard marker after the first p of them (p = n + 1: no marker)
DeckSpans(header, n, p, q) ==
    (IF header = "none" THEN <<>> ELSE <<HeaderSpan(header)>>)
        \o [i \in 1..(IF p <= n THEN n + 1 ELSE n) |->
               IF i <= p THEN CardSpan(q, i)
               ELSE IF i = p + 1 THEN MarkerSpan
               ELSE CardSpan(q, i - 1)]

\* CardEntry(qty, name); text is "name" for a card name and "line" when the
\* name is the whole line, quantity included ("4 Lightning Bolt"), and
\* "marker" / "header" when it is the text of such a span
CardEntry(qty, name, text) == [name |-> name, qty |-> qty, text |-> text]

DeckSections(main, side) == [main |-> main, side |-> side]

\* no call has been made yet
NoSpans == <<HeaderSpan("nocall")>>

ParseInit ==
    /\ pd_spans = NoSpans
    /\ pd_ret = DeckSections(<<>>, <<>>)

\* l.417: 'MTGO' in one of the first ten lines
force_complete_mode(spans) ==
    \E i \in 1..Len(spans) : i <= HeaderWindow /\ spans[i].kind \in {"mtgo", "mtgo_deck"}

\* l.432-435: any(skip in text.lower() ...) for 'cards', 'deck', 'total', ...
IsUiElement(span) == span.kind = "mtgo_deck"

\* l.425-464: the entry one span contributes, <<>> when it contributes none
SpanEntry(span, force) ==
    IF span.kind = "marker" /\ ~force THEN <<>>
    ELSE IF IsUiElement(span) THEN <<>>
    ELSE IF span.kind = "card"
         THEN IF span.qty > 0 /\ span.qty <= MaxQty
              THEN <<CardEntry(span.qty, span.name, "name")>>
              ELSE <<>>
    ELSE IF span.kind = "marker" THEN <<CardEntry(1, 0, "marker")>>
    ELSE <<CardEntry(1, 0, "header")>>

\* l.425-464: the loop over the spans, is_sideboard flipping at a marker
RECURSIVE ParseLoop(_, _, _, _, _, _)
ParseLoop(spans, i, force, is_sideboard, main, side) ==
    IF i > Len(spans) THEN DeckSections(main, side)
    ELSE IF spans[i].kind = "marker" /\ ~force
         THEN ParseLoop(spans, i + 1, force, TRUE, main, side)
         ELSE IF is_sideboard
              THEN ParseLoop(spans, i + 1, force, is_sideboard, main,
                             side \o SpanEntry(spans[i], force))
              ELSE ParseLoop(spans, i + 1, force, is_sideboard,
                             main \o SpanEntry(spans[i], force), side)

\* l.466-484 and l.381-399: the first MainSize quantity units go to main, the
\* entry that straddles the limit is split
RECURSIVE Redistribute(_, _, _, _, _)
Redistribute(all_cards, i, total_count, main, side) ==
    IF i > Len(all_cards) THEN DeckSections(main, side)
    ELSE LET card == all_cards[i]
             remaining_main == MainSize - total_count
         IN IF total_count < MainSize
            THEN IF card.qty <= remaining_main
                 THEN Redistribute(all_cards, i + 1, total_count + card.qty,
                                   Append(main, card), side)
                 ELSE Redistribute(all_cards, i + 1, MainSize,
                                   Append(main, CardEntry(remaining_main, card.name, card.text)),
                                   Append(side, CardEntry(card.qty - remaining_main,
                                                          card.name, card.text)))
            ELSE Redistribute(all_cards, i + 1, total_count, main, Append(side, card))

\* _parse_cards_mtga l.331-378: the entry one span contributes. A line
\* "<qty> <name>" is not a lone number, has letters, and is taken whole as a
\* card name with quantity 1; lines containing 'sideboard' or 'deck' are
\* skipped
MtgaEntry(span) ==
    IF span.kind \in {"marker", "mtgo_deck"} THEN <<>>
    ELSE IF span.kind = "card" THEN <<CardEntry(1, span.name, "line")>>
    ELSE <<CardEntry(1, 0, "header")>>

RECURSIVE MtgaCards(_, _)
MtgaCards(spans, i) ==
    IF i > Len(spans) THEN <<>> ELSE MtgaEntry(spans[i]) \o MtgaCards(spans, i + 1)

\* OCRService._parse_cards_mtga (l.317-401)
parse_cards_mtga(spans) == Redistribute(MtgaCards(spans, 1), 1, 0, <<>>, <<>>)

\* OCRService._parse_cards (l.403-492)
parse_cards_result(spans) ==
    LET force == force_complete_mode(spans)
        parsed == ParseLoop(spans, 1, force, FALSE, <<>>, <<>>)
        sections == IF force
                    THEN Redistribute(parsed.main \o parsed.side, 1, 0, <<>>, <<>>)
                    ELSE parsed
    IN IF Len(sections.main) + Len(sections.side) >= MinEntries
       THEN sections
       ELSE parse_cards_mtga(spans)

\* the function keeps no state between calls: one call per behaviour
parse_cards(spans) ==
    /\ pd_spans = NoSpans
    /\ pd_spans' = spans
    /\ pd_ret' = parse_cards_result(spans)
    /\ UNCHANGED <<coreVars, notParseVars>>

ParseNext ==
    \E header \in Headers, n \in 0..MaxLines, q \in LineQtys :
        \E p \in 0..(n + 1) : parse_cards(DeckSpans(header, n, p, q))

\* ===================================================================
\* Part XVI: deck export (exporters/tappedout.py)
\* ===================================================================

\* entries in one section of a deck
MaxSection == 2
\* card names and quantities in use
NumNames == 2
ExportQtys == {1, 4}

\* models.NormalizedCard: qty and name
NormalizedCard(qty, name) == [name |-> name, qty |-> qty]

SectionEntries == {NormalizedCard(q, n) : q \in ExportQtys, n \in 1..NumNames}

\* the sections a deck may have
Sections == UNION {[1..k -> SectionEntries] : k \in 0..MaxSection}

\* a line of text: f"{c.qty} {c.name}" is a card line with nothing between
\* the quantity and the blank; "x" would be written there by "{c.qty}x"
CardLine(c) == [after_qty |-> "", kind |-> "card", name |-> c.name, qty |-> c.qty]

TextLine(text) == [after_qty |-> "", kind |-> text, name |-> 0, qty |-> 0]

\* "\n".join(...) as the lines of the joined text: the empty string is one
\* empty line
JoinLines(entries) ==
    IF entries = <<>> THEN <<TextLine("")>>
    ELSE [i \in 1..Len(entries) |-> CardLine(entries[i])]

\* s + t where s is given by its lines and t by its lines: the last line of
\* s and the first line of t become one line
ConcatText(s, t) ==
    IF s[Len(s)] = TextLine("") THEN SubSeq(s, 1, Len(s) - 1) \o t
    ELSE IF t[1] = TextLine("") THEN s \o Tail(t)
    ELSE s \o t

\* export_tappedout (tappedout.py 2-3): main lines + "\n\nSideboard\n" + side lines
tappedout_text(deck) ==
    ConcatText(ConcatText(JoinLines(deck.main),
                          <<TextLine(""), TextLine(""), TextLine("Sideboard"), TextLine("")>>),
               JoinLines(deck.side))

ExportInit ==
    /\ ex_deck = [main |-> <<>>, side |-> <<>>]
    /\ ex_ret = <<>>

export_tappedout(deck) ==
    /\ ex_deck' = deck
    /\ ex_ret' = tappedout_text(deck)
    /\ UNCHANGED <<coreVars, notExportVars>>

ExportNext ==
    \E main \in Sections, side \in Sections :
        export_tappedout([main |-> main, side |-> side])

\* ===================================================================
\* Part XVII: the settings the Vision gate is built from (config.py)
\* ===================================================================

\* OCR_MIN_CONF and OCR_MIN_LINES are read from the environment without a
\* range check (config.py 12-13): the defaults, values just below the caps
\* of _adjust_thresholds, and values above them
ConfBaselines == {OCR_MIN_CONF, ConfidenceCap - 2, ConfidenceCap + 2}
LineBaselines == {OCR_MIN_LINES, LinesCap - 1, LinesCap + 5}

SettingsInit ==
    /\ settings_OCR_MIN_CONF = OCR_MIN_CONF
    /\ settings_OCR_MIN_LINES = OCR_MIN_LINES

\* the process starts under an environment: Settings() (config.py 12-13) and
\* vision_circuit_breaker = VisionFallbackCircuitBreaker()
\* (circuit_breaker.py 284, __init__ 30-65)
VisionStart(min_conf, min_lines) ==
    /\ settings_OCR_MIN_CONF' = min_conf
    /\ settings_OCR_MIN_LINES' = min_lines
    /\ vision_state' = "closed"
    /\ failure_count' = 0
    /\ circuit_opened_at' = NoTime
    /\ fallback_history' = <<>>
    /\ current_confidence_threshold' = min_conf
    /\ current_min_lines' = min_lines
    /\ vision_ret' = "none"
    /\ vision_streak' = 0
    /\ vision_probe_failed' = FALSE
    /\ UNCHANGED <<ENABLE_VISION_FALLBACK, coreVars, startFrame>>

ThresholdNext ==
    \/ \E min_conf \in ConfBaselines, min_lines \in LineBaselines :
           VisionStart(min_conf, min_lines)
    \/ \E used \in BOOLEAN : record_request(used)
    \/ \E c \in Confidences, l \in LineCounts : should_use_fallback(c, l)
    \/ VisionReset

\* ===================================================================
\* Part XVIII: the two paths of RateLimiter side by side (core/rate_limit.py)
\* ===================================================================

\* the durations between two requests of the client
PathSteps == {2, window_seconds - 1}

\* (allowed, remaining_requests)
Decision(allowed, remaining) == [allowed |-> allowed, remaining |-> remaining]

Max(a, b) == IF a > b THEN a ELSE b

PathInit ==
    /\ path_zset = <<>>
    /\ path_times = <<>>
    /\ path_redis = Decision(TRUE, RequestsPerMinute)
    /\ path_memory = Decision(TRUE, RequestsPerMinute)
    /\ path_last = NoTime
    /\ path_count = 0

\* _check_redis (l.75-119) with Redis reachable: the sorted set after the
\* pipeline (ZREMRANGEBYSCORE 0 window_start, ZCARD, ZADD now)
redis_zset_after(zset, t) ==
    LET window_start == t - window_seconds
        InWindow(s) == s > window_start
    IN Append(SelectSeq(zset, InWindow), t)

\* and its return value (l.106-113)
redis_decision(zset, t) ==
    LET window_start == t - window_seconds
        InWindow(s) == s > window_start
        request_count == Len(SelectSeq(zset, InWindow))
    IN IF request_count >= RequestsPerMinute
       THEN Decision(FALSE, 0)
       ELSE Decision(TRUE, Max(0, RequestsPerMinute - request_count - 1))

\* _check_memory (l.121-146): the deque after the call
memory_times_after(times, t) ==
    LET window_start == t - window_seconds
        NotOld(s) == ~(s < window_start)
        request_times == SelectSeq(times, NotOld)
        room == IF Len(request_times) = DequeMaxLen THEN Tail(request_times)
                                                    ELSE request_times
    IN IF Len(request_times) >= RequestsPerMinute THEN request_times
       ELSE Append(room, t)

\* and its return value (l.138-146)
memory_decision(times, t) ==
    LET window_start == t - window_seconds
        NotOld(s) == ~(s < window_start)
        request_times == SelectSeq(times, NotOld)
    IN IF Len(request_times) >= RequestsPerMinute
       THEN Decision(FALSE, 0)
       ELSE Decision(TRUE, Max(0, RequestsPerMinute
                                      - Len(memory_times_after(times, t))))

\* one request of the client, handled by a limiter on Redis and by a limiter
\* on the in-process storage; time.time() differs from one request to the next
PathRequest ==
    /\ path_count < MaxRequests
    /\ now # path_last
    /\ path_zset' = redis_zset_after(path_zset, now)
    /\ path_redis' = redis_decision(path_zset, now)
    /\ path_times' = memory_times_after(path_times, now)
    /\ path_memory' = memory_decision(path_times, now)
    /\ path_last' = now
    /\ path_count' = path_count + 1
    /\ UNCHANGED <<coreVars, notPathVars>>

PathNext ==
    \/ \E d \in PathSteps : Tick(d)
    \/ PathRequest

\* ===================================================================
\* Part XIX: the size of CacheManager's in-process map (cache_manager.py)
\* ===================================================================

\* how far above MemoryCap the map is followed
MaxOver == 2

MapInit ==
    /\ map_len = 0
    /\ map_op = "none"

\* len(d) after d[key] = value, where present says whether key is in d
LenAfterStore(len, present) == IF present THEN len ELSE len + 1

\* l.83-87: above MemoryCap entries the first TrimCount keys are deleted
LenAfterTrim(len) == IF len > MemoryCap THEN len - Min(TrimCount, len) ELSE len

\* CacheManager.set with enabled False (l.79-88)
MapSet(present) ==
    /\ ~ConfigUseRedis(envUseRedis)
    /\ present => map_len > 0
    /\ map_len' = LenAfterTrim(LenAfterStore(map_len, present))
    /\ map_op' = "set"
    /\ UNCHANGED <<coreVars, notMapVars>>

\* CacheManager.delete with enabled False (l.97-100)
MapDelete(present) ==
    /\ ~ConfigUseRedis(envUseRedis)
    /\ present => map_len > 0
    /\ map_len' = IF present THEN map_len - 1 ELSE map_len
    /\ map_op' = "delete"
    /\ UNCHANGED <<coreVars, notMapVars>>

\* CacheManager.increment_counter with enabled False (l.163-166)
MapIncrement(present) ==
    /\ ~ConfigUseRedis(envUseRedis)
    /\ present => map_len > 0
    /\ map_len < MemoryCap + MaxOver
    /\ map_len' = LenAfterStore(map_len, present)
    /\ map_op' = "increment_counter"
    /\ UNCHANGED <<coreVars, notMapVars>>

MapNext ==
    \/ \E present \in BOOLEAN : MapSet(present)
    \/ \E present \in BOOLEAN : MapDelete(present)
    \/ \E present \in BOOLEAN : MapIncrement(present)

\* ===================================================================
\* Part XX: Bulkhead (core/resilience.py)
\* ===================================================================

\* coroutines that call execute on one Bulkhead, and the calls they make
NumCoroutines == 3
MaxCalls == 4
\* the limits the Bulkhead is constructed with
max_concurrent == 1
max_queue == 2

Coroutines == 1..NumCoroutines

\* Bulkhead.__init__ (l.274-288)
BulkheadInit ==
    /\ bh_pc = [c \in Coroutines |-> "idle"]
    /\ bh_value = max_concurrent
    /\ queue_size = 0
    /\ active = 0
    /\ bh_ret = "none"
    /\ bh_calls = 0

Waiting == {c \in Coroutines : bh_pc[c] = "waiting"}

Running == {c \in Coroutines : bh_pc[c] = "running"}

\* execute up to its first suspension (l.290-299). Semaphore.acquire returns
\* without suspending when a permit is free; with other callers already
\* waiting for a free permit it returns or suspends, depending on the
\* asyncio version
ExecuteCall(c, barge) ==
    /\ bh_pc[c] = "idle"
    /\ bh_calls < MaxCalls
    /\ bh_calls' = bh_calls + 1
    /\ IF queue_size >= max_queue
       THEN /\ bh_ret' = "queue full"
            /\ UNCHANGED <<bh_pc, bh_value, queue_size, active>>
       ELSE IF bh_value > 0 /\ (Waiting = {} \/ barge)
       THEN \* queue_size += 1; acquire; queue_size -= 1; active += 1; func starts
            /\ bh_value' = bh_value - 1
            /\ active' = active + 1
            /\ bh_pc' = [bh_pc EXCEPT ![c] = "running"]
            /\ UNCHANGED <<queue_size, bh_ret>>
       ELSE \* queue_size += 1; acquire suspends
            /\ queue_size' = queue_size + 1
            /\ bh_pc' = [bh_pc EXCEPT ![c] = "waiting"]
            /\ UNCHANGED <<bh_value, active, bh_ret>>
    /\ UNCHANGED <<coreVars, notBulkheadVars>>

\* a waiting caller gets a permit (l.296-299)
ExecuteAcquire(c) ==
    /\ bh_pc[c] = "waiting"
    /\ bh_value > 0
    /\ bh_value' = bh_value - 1
    /\ queue_size' = queue_size - 1
    /\ active' = active + 1
    /\ bh_pc' = [bh_pc EXCEPT ![c] = "running"]
    /\ UNCHANGED <<bh_ret, bh_calls>>
    /\ UNCHANGED <<coreVars, notBulkheadVars>>

\* func returns (l.300-302): finally, then the semaphore is released
ExecuteReturn(c) ==
    /\ bh_pc[c] = "running"
    /\ active' = active - 1
    /\ bh_value' = bh_value + 1
    /\ bh_pc' = [bh_pc EXCEPT ![c] = "idle"]
    /\ bh_ret' = "returned"
    /\ UNCHANGED <<queue_size, bh_calls>>
    /\ UNCHANGED <<coreVars, notBulkheadVars>>

\* func raises (l.300-306): finally, the semaphore is released, and the
\* exception reaches the except clause around the async with
ExecuteRaise(c) ==
    /\ bh_pc[c] = "running"
    /\ active' = active - 1
    /\ bh_value' = bh_value + 1
    /\ queue_size' = queue_size - 1
    /\ bh_pc' = [bh_pc EXCEPT ![c] = "idle"]
    /\ bh_ret' = "raised"
    /\ UNCHANGED bh_calls
    /\ UNCHANGED <<coreVars, notBulkheadVars>>

\* the caller is cancelled while it waits for the semaphore (l.296, 304-306)
ExecuteCancel(c) ==
    /\ bh_pc[c] = "waiting"
    /\ queue_size' = queue_size - 1
    /\ bh_pc' = [bh_pc EXCEPT ![c] = "idle"]
    /\ bh_ret' = "cancelled"
    /\ UNCHANGED <<bh_value, active, bh_calls>>
    /\ UNCHANGED <<coreVars, notBulkheadVars>>

BulkheadNext ==
    \/ \E c \in Coroutines, barge \in BOOLEAN : ExecuteCall(c, barge)
    \/ \E c \in Coroutines : ExecuteAcquire(c)
    \/ \E c \in Coroutines : ExecuteReturn(c)
    \/ \E c \in Coroutines : ExecuteRaise(c)
    \/ \E c \in Coroutines : ExecuteCancel(c)

\* ===================================================================
\* Part XXI: the maps of ConnectionManager (api/websocket.py)
\* ===================================================================

\* websockets opened in a behaviour, and the jobs they watch
NumSockets == 2
NumWatched == 2

Sockets == 1..NumSockets
WatchedJobs == 1..NumWatched

\* a key of active_connections with its set, or a key that is not there
JobEntry(members) == [members |-> members, present |-> TRUE]
NoEntry == [members |-> {}, present |-> FALSE]

\* a key of connection_info with its metadata, or a key that is not there
InfoEntry(job_id) == [job_id |-> job_id, present |-> TRUE]
NoInfo == [job_id |-> 0, present |-> FALSE]

\* ConnectionManager.__init__ (l.18-22)
ManagerInit ==
    /\ job_sockets = [j \in WatchedJobs |-> NoEntry]
    /\ socket_info = [s \in Sockets |-> NoInfo]
    /\ socket_pc = [s \in Sockets |-> "new"]
    /\ send_tasks = {}
    /\ watched_state = [j \in WatchedJobs |-> "processing"]
    /\ manager_ret = [op |-> "none", socket |-> 0]

\* disconnect that forgets the metadata and leaves the set as it is
manager_disconnect_info_only(s) ==
    /\ job_sockets' = job_sockets
    /\ socket_info' = [socket_info EXCEPT ![s] = NoInfo]

\* ConnectionManager.disconnect (l.47-65)
manager_disconnect(s) ==
    LET info == socket_info[s]
    IN IF info.present
       THEN LET job_id == info.job_id
                rest == job_sockets[job_id].members \ {s}
            IN /\ job_sockets' =
                      IF job_sockets[job_id].present
                      THEN [job_sockets EXCEPT ![job_id] =
                               IF rest = {} THEN NoEntry ELSE JobEntry(rest)]
                      ELSE job_sockets
               /\ socket_info' = [socket_info EXCEPT ![s] = NoInfo]
       ELSE UNCHANGED <<job_sockets, socket_info>>

\* websocket_endpoint l.141 -> ConnectionManager.connect (l.25-45): both maps
\* are written with no suspension in between
ManagerConnect(s, job_id) ==
    /\ socket_pc[s] = "new"
    /\ socket_pc' = [socket_pc EXCEPT ![s] = "open"]
    /\ job_sockets' = [job_sockets EXCEPT ![job_id] = JobEntry(@.members \cup {s})]
    /\ socket_info' = [socket_info EXCEPT ![s] = InfoEntry(job_id)]
    /\ manager_ret' = [op |-> "connect", socket |-> s]
    /\ UNCHANGED <<send_tasks, watched_state>>
    /\ UNCHANGED <<coreVars, notManagerVars>>

\* the client goes away; the endpoint has not noticed yet
ClientGone(s) ==
    /\ socket_pc[s] = "open"
    /\ socket_pc' = [socket_pc EXCEPT ![s] = "gone"]
    /\ manager_ret' = [op |-> "gone", socket |-> s]
    /\ UNCHANGED <<job_sockets, socket_info, send_tasks, watched_state>>
    /\ UNCHANGED <<coreVars, notManagerVars>>

\* websocket_endpoint l.175-180: receive or send raises in the loop and the
\* handler calls manager.disconnect
EndpointDisconnect(s) ==
    /\ socket_pc[s] = "gone"
    /\ socket_pc' = [socket_pc EXCEPT ![s] = "closed"]
    /\ manager_disconnect(s)
    /\ manager_ret' = [op |-> "disconnect", socket |-> s]
    /\ UNCHANGED <<send_tasks, watched_state>>
    /\ UNCHANGED <<coreVars, notManagerVars>>

\* websocket_endpoint l.165-170: the job is in a terminal state, the loop is
\* left by break and the endpoint returns
EndpointReturn(s) ==
    /\ socket_pc[s] = "open"
    /\ watched_state[socket_info[s].job_id] \in TerminalStates
    /\ socket_pc' = [socket_pc EXCEPT ![s] = "returned"]
    /\ manager_ret' = [op |-> "returned", socket |-> s]
    /\ UNCHANGED <<job_sockets, socket_info, send_tasks, watched_state>>
    /\ UNCHANGED <<coreVars, notManagerVars>>

\* the writer of a job stores its result and notify_job_update (l.183-196) ->
\* send_job_update (l.67-75) creates one _send_safe task per websocket in a
\* copy of the job's set
SendJobUpdate(job_id) ==
    /\ watched_state[job_id] = "processing"
    /\ watched_state' = [watched_state EXCEPT ![job_id] = "completed"]
    /\ send_tasks' = IF job_sockets[job_id].present
                     THEN send_tasks \cup job_sockets[job_id].members
                     ELSE send_tasks
    /\ manager_ret' = [op |-> "update", socket |-> 0]
    /\ UNCHANGED <<job_sockets, socket_info, socket_pc>>
    /\ UNCHANGED <<coreVars, notManagerVars>>

\* _send_safe (l.77-83): send_json goes through only on a websocket that is
\* open; when it raises the websocket is disconnected
ManagerSendSafe(s, sent) ==
    /\ s \in send_tasks
    /\ sent => socket_pc[s] = "open"
    /\ send_tasks' = send_tasks \ {s}
    /\ IF sent
       THEN /\ manager_ret' = [op |-> "sent", socket |-> s]
            /\ UNCHANGED <<job_sockets, socket_info, socket_pc>>
       ELSE /\ manager_disconnect(s)
            /\ socket_pc' = [socket_pc EXCEPT ![s] = IF @ = "open" THEN "gone" ELSE @]
            /\ manager_ret' = [op |-> "send failed", socket |-> s]
    /\ UNCHANGED watched_state
    /\ UNCHANGED <<coreVars, notManagerVars>>

ManagerNext ==
    \/ \E s \in Sockets, j \in WatchedJobs : ManagerConnect(s, j)
    \/ \E s \in Sockets : ClientGone(s)
    \/ \E s \in Sockets : EndpointDisconnect(s)
    \/ \E s \in Sockets : EndpointReturn(s)
    \/ \E j \in WatchedJobs : SendJobUpdate(j)
    \/ \E s \in Sockets, sent \in BOOLEAN : ManagerSendSafe(s, sent)

\* the later parts in their state after construction
AfterCfgInit == ClockInit /\ VisionInit /\ CbInit /\ RateInit /\ OrigInit /\ WsInit /\ RetInit /\ GdprInit /\ CmInit /\ VfInit /\ ParseInit /\ ExportInit /\ SettingsInit /\ PathInit /\ MapInit /\ BulkheadInit /\ ManagerInit

LaterInit == FindInit /\ CfgInit /\ AfterCfgInit

\* ===================================================================
\* Specifications
\* ===================================================================

vars == <<envUseRedis, idemVars, storeVars, upVars, taskVars, clientVars, laterVars>>

\* every part in its state after construction, under any deployment
Init ==
    /\ envUseRedis \in EnvValues
    /\ IdemInit /\ StoreInit /\ UploadInit /\ TaskInit /\ ClientInit
    /\ LaterInit

\* idempotent_ocr calls running against one Redis
SpecIdem == Init /\ [][IdemNext]_vars

PipelineNext == UploadNext \/ TaskNext

\* upload requests and Celery tasks running against one job store, all within
\* the retention period of the keys they write (no key expires)
SpecPipeline == Init /\ [][PipelineNext]_vars

StorageInit ==
    /\ envUseRedis = "true"
    /\ IdemInit /\ StoreInitAny /\ UploadInit /\ TaskInit /\ ClientInit
    /\ LaterInit

StorageNext ==
    \/ ClientNext
    \/ \E j \in ClientJobs : JobExpire(j)

\* concurrent JobStorage calls for one job id on a store that already holds
\* records; the job key may reach its TTL at any time
SpecStorage == StorageInit /\ [][StorageNext]_vars

FindSpecInit ==
    /\ envUseRedis \in EnvValues
    /\ IdemInit /\ UploadInit /\ TaskInit /\ ClientInit
    /\ FindStoreInit
    /\ fpc = "idle" /\ fhash = 0 /\ fscan = {} /\ fret = 0
    /\ CfgInit
    /\ AfterCfgInit

\* one find_by_image_hash call on a store that holds earlier jobs
SpecFind == FindSpecInit /\ [][FindNext]_vars

\* submissions of images to the upload handler and to OCRService while the
\* deployment's settings change between them
SpecConfig == Init /\ [][CfgNext]_vars

\* the breakers do not read USE_REDIS: one deployment
BreakerInit ==
    /\ envUseRedis = "unset"
    /\ IdemInit /\ StoreInit /\ UploadInit /\ TaskInit /\ ClientInit
    /\ LaterInit

\* calls on one VisionFallbackCircuitBreaker while the clock advances
SpecVision == BreakerInit /\ [][VisionNext]_vars

BreakersNext ==
    \/ \E d \in ShortSteps : Tick(d)
    \/ \E c \in Confidences : should_use_fallback(c, OCR_MIN_LINES)
    \/ record_success
    \/ record_failure
    \/ \E ok \in BOOLEAN : call(ok)

BreakersInit ==
    /\ BreakerInit
    /\ ENABLE_VISION_FALLBACK

\* one client address sending requests to the export and upload endpoints
SpecRate == Init /\ [][RateNext]_vars

\* both breakers guarding the Vision API with the fallback enabled, no
\* request recorded in the history
SpecBreakers == BreakersInit /\ [][BreakersNext]_vars

\* calls through resilience.vision_api_breaker while the clock advances
SpecCb == BreakerInit /\ [][CbNext]_vars

\* clients sending requests to the original upload endpoint
SpecOrigRate == BreakerInit /\ [][OrigNext]_vars

\* subscribers of one job, the job writer and the status cache
SpecWs == Init /\ [][WsNext]_vars

LiveInit ==
    /\ envUseRedis = "true"
    /\ IdemInit /\ StoreInit /\ UploadInit /\ TaskInit /\ ClientInit
    /\ LaterInit

LiveNext ==
    \/ UploadNext
    \/ TaskNext
    \/ \E t \in Tasks : TaskHardLimit(t)

\* upload requests and Celery tasks with Redis configured; the event loop runs
\* every request that can take a step and the worker runs every started task
\* until it returns, raises or is killed
SpecLive ==
    /\ LiveInit
    /\ [][LiveNext]_vars
    /\ \A u \in Uploads : WF_vars(UploadRun(u))
    /\ \A t \in Tasks : WF_vars(TaskRun(t))

\* JobStorage calls and per-user deletions on one Redis while the clock advances
SpecRetention == BreakerInit /\ [][RetNext]_vars

\* per-identifier deletion requests on a store that holds job records
SpecGdpr == BreakerInit /\ [][GdprNext]_vars

\* get and set calls on one CacheManager while Redis goes down and comes back
SpecCache == Init /\ [][CmNext]_vars

\* fallback calls to the Vision provider for the image at hand
SpecVisionCall == BreakerInit /\ [][VfNext]_vars

\* _parse_cards applied to generated deck lists
SpecParse == BreakerInit /\ [][ParseNext]_vars

\* export_tappedout applied to small decks
SpecExport == BreakerInit /\ [][ExportNext]_vars

\* the Vision gate's thresholds under the configured baselines
SpecThresholds == BreakerInit /\ [][ThresholdNext]_vars

\* one client address whose requests go through both paths of RateLimiter
SpecPaths == BreakerInit /\ [][PathNext]_vars

\* set, delete and increment_counter on a CacheManager without Redis
SpecMap == BreakerInit /\ [][MapNext]_vars

\* coroutines calling execute on one Bulkhead
SpecBulkhead == BreakerInit /\ [][BulkheadNext]_vars

\* websockets connecting to jobs, leaving, and being sent job updates
SpecManager == BreakerInit /\ [][ManagerNext]_vars

\* -------------------------------------------------------------------
\* Claims on idempotent execution
\* -------------------------------------------------------------------

Executing(c) == cpc[c] = "exec"

\* C1: for any key K, two callers that both acquired the lock on lock_key(K)
\* are never executing ocr_function at the same time, also when an execution
\* outlasts the lock's auto-release timeout.
C1_LockHoldersExclusive ==
    \A c, d \in Callers :
        (c # d /\ ckey[c] = ckey[d] /\ ctoken[c] /\ ctoken[d])
            => ~(Executing(c) /\ Executing(d))

\* C2: under a healthy lock service (Redis in use, no lock key lost to its
\* auto-release), overlapping calls for the same key K never execute
\* ocr_function at the same moment: the others return the cached result or wait.
C2_OneExecutionPerKey ==
    (idemRedis /\ ~lockExpired) =>
        \A c, d \in Callers :
            (c # d /\ ckey[c] = ckey[d]) => ~(Executing(c) /\ Executing(d))

\* C4: when ocr_function raises, the call writes nothing to result_key(K),
\* it no longer holds the lock on K once it has left, and the caller sees the
\* exception.
C4_RaiseLeavesNoResult ==
    /\ [][\A c \in Callers :
            (cpc[c] = "exec" /\ cpc'[c] # "exec" /\ cret'[c].kind # "value")
                => (cret'[c] = Raised /\ cpc'[c] = "exit")]_vars
    /\ [][\A c \in Callers :
            (cpc'[c] # cpc[c] /\ (cret[c] = Raised \/ cret'[c] = Raised))
                => resultStore' = resultStore]_vars
    /\ [](\A c \in Callers :
            (cpc[c] = "done" /\ cret[c] = Raised)
                => \A k \in Keys : lockOwner[k] # c)

\* a call that took the lock, saw ocr_function raise and left: the result key
\* is still absent (the next call misses) and the lock key is free again
C4_Witness ==
    \E c \in Callers :
        /\ cpc[c] = "done" /\ cret[c] = Raised
        /\ idemRedis /\ chaslock[c] /\ ~lockExpired
        /\ \A d \in Callers \ {c} : cpc[d] = "idle"
        /\ resultStore[ckey[c]] = {}
        /\ lockOwner[ckey[c]] = NoOwner

ProcessingJobs(h) ==
    {j \in JobIds : jobs[j].state = "processing" /\ jobs[j].image_hash = h}

\* C3: overlapping uploads of one image do not both run the pipeline: at any
\* time at most one job per fingerprint is in state processing.
C3_OneProcessingPerFingerprint ==
    \A h \in Hashes : Cardinality(ProcessingJobs(h)) <= 1

\* C6: an upload that starts after an upload of the same image has completed
\* answers with cached = true and the id of a completed job of that image, and
\* creates no job record.
C6_RepeatUploadCached ==
    \A u \in Uploads :
        (upc[u] = "done" /\ usawDone[u]) =>
            /\ uresp[u].kind = "ok"
            /\ "cached" \in DOMAIN uresp[u].body
            /\ uresp[u].body.cached = TRUE
            /\ jobs[uresp[u].body.jobId].state = "completed"
            /\ ustep[u] = 0

\* C7: create_job stores a job as queued with progress 0, and every write of
\* the upload handler and of the background task keeps the state where it is
\* or moves it forward along queued -> processing -> {completed, failed,
\* cancelled}.
C7_StateMovesForward ==
    [][LET Forward(old, new) ==
               \/ new.state = old.state
               \/ old.state = "queued" /\ new.state = "processing"
               \/ old.state = "processing" /\ new.state \in TerminalStates
       IN /\ \A u \in Uploads :
                (upc[u] = "create" /\ upc'[u] # "create" /\ ~Present(jobs[u]))
                    => (jobs'[u].state = "queued" /\ jobs'[u].progress = 0)
          /\ \A j \in JobIds :
                (Present(jobs[j]) /\ Present(jobs'[j])) => Forward(jobs[j], jobs'[j])]_vars

\* C8: over the status writes of the pipeline the stored progress of a job
\* never decreases, the failure path included.
C8_ProgressNeverDecreases ==
    [][\A j \in JobIds :
            (Present(jobs[j]) /\ Present(jobs'[j])) => jobs'[j].progress >= jobs[j].progress]_vars

\* -------------------------------------------------------------------
\* Claims on job storage
\* -------------------------------------------------------------------

\* C9: once the stored state of a job is completed, failed or cancelled, later
\* update_job and set_job calls leave its state, progress, result and error as
\* they are, for as long as the record exists.
C9_TerminalImmutable ==
    [][\A j \in JobIds :
            (jobs[j].state \in TerminalStates /\ Present(jobs'[j]))
                => /\ jobs'[j].state = jobs[j].state
                   /\ jobs'[j].progress = jobs[j].progress
                   /\ jobs'[j].result = jobs[j].result
                   /\ jobs'[j].error = jobs[j].error]_vars

\* the create_job call of client k has set the key
CreatedBy(k) ==
    /\ kop[k].op = "create_job"
    /\ kpc[k] \in {"sadd", "expire_hash", "zadd", "expire_user"} \/ kret[k] = "True"

\* C10: create_job is an atomic create-if-absent keyed by job id: of the calls
\* for one id that run while the key has not expired at most one creates the
\* record and returns True; a call that finds the id present returns False
\* and leaves the record and both indices as they are, and a call returns
\* False only then.
C10_CreateIfAbsent ==
    /\ [](\A j \in JobIds :
            ~jobExpired[j] =>
                Cardinality({k \in Clients : kop[k].job_id = j /\ CreatedBy(k)}) <= 1)
    /\ [][\A k \in Clients :
            (kpc[k] = "setnx" /\ kpc'[k] # "setnx" /\ kop[k].op = "create_job") =>
                IF Present(jobs[kop[k].job_id])
                THEN /\ kret'[k] = "False" /\ kpc'[k] = "done"
                     /\ UNCHANGED storeVars
                ELSE /\ kret'[k] # "False"
                     /\ jobs'[kop[k].job_id] = NewJob(kop[k].image_hash, kop[k].user_id)]_vars
    /\ [][\A k \in Clients :
            (kop[k].op = "create_job" /\ kret[k] = "none" /\ kret'[k] = "True")
                => \/ kpc[k] \in {"expire_hash", "expire_user"}
                   \/ kpc[k] = "setnx" /\ ~Present(jobs[kop[k].job_id])]_vars

\* two create_job calls for one id overlap: one has set the key and is still
\* filling the indices, the other has already returned False
C10_Witness ==
    \E k1, k2 \in Clients :
        /\ k1 # k2
        /\ kop[k1].op = "create_job" /\ kop[k2].op = "create_job"
        /\ kop[k1].job_id = kop[k2].job_id
        /\ ~jobExpired[kop[k1].job_id]
        /\ kpc[k1] \in {"sadd", "expire_hash", "zadd", "expire_user"}
        /\ kpc[k2] = "done" /\ kret[k2] = "False"

\* C11: updates to one job id are serialized: when a progress-only update_job
\* and a result-only update_job on the same job have both returned True (the
\* record did not expire and nothing else wrote it), the stored record carries
\* the progress of the one and the result of the other.
C11_NoLostUpdate ==
    \A k1, k2 \in Clients :
        (/\ k1 # k2
         /\ kop[k1].op = "update_job" /\ kop[k2].op = "update_job"
         /\ kop[k1].job_id = kop[k2].job_id
         /\ kop[k1].state = "None" /\ kop[k1].progress # -1 /\ kop[k1].result = 0
         /\ kop[k2].state = "None" /\ kop[k2].progress = -1 /\ kop[k2].result # 0
         /\ kpc[k1] = "done" /\ kret[k1] = "True"
         /\ kpc[k2] = "done" /\ kret[k2] = "True"
         /\ \A k \in Clients \ {k1, k2} : kpc[k] = "idle"
         /\ ~jobExpired[kop[k1].job_id])
            => /\ jobs[kop[k1].job_id].progress = kop[k1].progress
               /\ jobs[kop[k1].job_id].result = kop[k2].result

\* -------------------------------------------------------------------
\* Claims on find_by_image_hash
\* -------------------------------------------------------------------

\* C12: find_by_image_hash(h) returns a job id only if that job is stored, has
\* fingerprint h and is completed; of several completed jobs with fingerprint
\* h it returns the most recently created one; and it returns None when no
\* completed job for h is stored.
C12_FindMostRecentCompleted ==
    [][(fpc = "scan" /\ fpc' = "done") =>
          LET Hits == {j \in JobIds : /\ Present(jobs[j])
                                      /\ jobs[j].image_hash = fhash
                                      /\ jobs[j].state = "completed"}
          IN /\ fret' # 0 => fret' \in Hits
             /\ fret' # 0 => \A j \in Hits : jobCreatedAt[j] <= jobCreatedAt[fret']
             /\ Hits = {} => fret' = 0]_vars

\* -------------------------------------------------------------------
\* Claims on the idempotency key
\* -------------------------------------------------------------------

\* C13: the idempotency key depends on the fingerprint and the configuration
\* only: two idempotent_ocr calls for the same image under the same settings
\* work with the same key, whenever they are made.
C13_KeyStableAcrossRuns ==
    \A c, d \in Callers :
        (ckey[c] # NoKey /\ ckey[d] # NoKey /\ ckey[c][1] = ckey[d][1])
            => ckey[c] = ckey[d]

\* C14: a submission never receives a job or an OCR result that was produced
\* under pipeline settings other than the ones it is made under: both the
\* upload handler's lookup and the OCR result cache are keyed by fingerprint
\* together with configuration.
C14_NoCrossConfigHit ==
    served.kind \in {"job", "ocr"} => served.under = served.requested

\* -------------------------------------------------------------------
\* Claims on the circuit breakers
\* -------------------------------------------------------------------

\* C15: starting from closed, the Vision circuit breaker opens exactly when
\* failure_threshold consecutive failures have been recorded: a failure
\* recorded while closed opens the circuit if and only if it is the
\* failure_threshold-th failure since the last recorded success (failures
\* separated by a recorded success do not add up), and opening records
\* opened_at.
C15_OpensAtConsecutiveFailures ==
    [][(vision_state = "closed" /\ failure_count' = failure_count + 1)
          => /\ (vision_state' = "open") <=> (vision_streak + 1 >= failure_threshold)
             /\ (vision_state' = "open") => (circuit_opened_at' = now)]_vars

\* C16: while the circuit is open and less than recovery_timeout has elapsed
\* since it opened, every check denies (CircuitBreaker.call rejects without
\* invoking the function) and the state stays open; a check made when the
\* elapsed time is at least recovery_timeout is not denied: the circuit goes
\* through half_open and the function is invoked.
C16_OpenDeniesUntilTimeout ==
    [][\A ok \in BOOLEAN :
          (cb_state = "open" /\ call(ok))
              => IF now - last_failure_time < cb_recovery_timeout
                 THEN cb_ret' = "rejected" /\ cb_state' = "open"
                 ELSE cb_ret' # "rejected"]_vars

\* C17: in half_open the probe is permitted, and one successful half-open
\* call moves the circuit to closed and clears the failure count: a call
\* that finds resilience.CircuitBreaker open or half_open, is let through
\* and returns, leaves it closed with no failure counted.
C17_HalfOpenSuccessCloses ==
    [][(/\ cb_state \in {"open", "half_open"}
        /\ call(TRUE)
        /\ cb_ret' = "returned")
          => /\ cb_state' = "closed"
             /\ failures' = 0]_vars

\* C18: in half_open a single failed call moves the circuit back to open
\* immediately and restarts the recovery timer at the time of that failure,
\* and while less than recovery_timeout has elapsed on that timer no probe is
\* permitted; for VisionFallbackCircuitBreaker (record_failure,
\* should_use_fallback) and for resilience.CircuitBreaker (a call let through
\* from open or half_open that raises).
C18_HalfOpenFailureReopens ==
    [][/\ (vision_state = "half_open" /\ failure_count' = failure_count + 1)
            => /\ vision_state' = "open"
               /\ circuit_opened_at' = now
       /\ \A c \in Confidences, l \in LineCounts :
             (/\ vision_state = "open"
              /\ now - circuit_opened_at < recovery_timeout
              /\ should_use_fallback(c, l))
                 => /\ vision_ret' = "False"
                    /\ vision_state' = "open"
       /\ (/\ cb_state \in {"open", "half_open"}
           /\ call(FALSE)
           /\ cb_ret' = "raised")
            => /\ cb_state' = "open"
               /\ last_failure_time' = now
       /\ \A ok \in BOOLEAN :
             (/\ cb_state = "open"
              /\ now - last_failure_time < cb_recovery_timeout
              /\ call(ok))
                 => /\ cb_ret' = "rejected"
                    /\ cb_state' = "open"]_vars

\* both breakers were reopened by a failed probe; one second before the
\* restarted timers run out CircuitBreaker.call has rejected a call since
\* and the last answer of the Vision gate is False
C18_Witness ==
    /\ vision_probe_failed
    /\ vision_state = "open"
    /\ vision_ret = "False"
    /\ now - circuit_opened_at = recovery_timeout - 1
    /\ cb_state = "open"
    /\ failures > cb_failure_threshold
    /\ cb_ret = "rejected"
    /\ now - last_failure_time = cb_recovery_timeout - 1

\* C19: with the circuit closed, the gate permits the Vision fallback if and
\* only if fallback is globally enabled and (mean_confidence <
\* current_min_conf or quantity_line_count < current_min_lines); in
\* particular it never permits it while fallback is globally disabled.
C19_ClosedGate ==
    [][\A c \in Confidences, l \in LineCounts :
          (vision_state = "closed" /\ should_use_fallback(c, l))
              => ((vision_ret' = "True")
                    <=> /\ ENABLE_VISION_FALLBACK
                        /\ \/ c < current_confidence_threshold
                           \/ l < current_min_lines)]_vars

\* -------------------------------------------------------------------
\* Claims on rate limiting
\* -------------------------------------------------------------------

\* C20: for a client address with minute limit N, a request is allowed if
\* and only if fewer than N of the requests the limiter let through lie less
\* than 60 seconds back: the first N inside a window pass, the (N+1)-th is
\* rejected, and the client passes again once 60 seconds have gone by since
\* the oldest request that still counts, whatever it sent in between.
C20_MinuteWindow ==
    [][(num_requests' = num_requests + 1) =>
          LET limiter == last_check'.limiter
              passed == allowed_at[limiter]
              counted == Cardinality({i \in 1..Len(passed) :
                                         now - passed[i] < window_seconds})
          IN last_check'.allowed <=> (counted < MinuteLimit(limiter))]_vars

\* -------------------------------------------------------------------
\* Claims on the original upload endpoint
\* -------------------------------------------------------------------

\* C21: on the upload endpoint, for any sequence of requests, a request from
\* a client IP that arrives less than the minimum interval (0.5 s) after the
\* previous request from the same IP is rejected with HTTP 429.
C21_MinIntervalRejects ==
    [][(orig_requests' = orig_requests + 1) =>
          LET ip == orig_ip'
          IN (/\ prev_req_at[ip] # NoTime
              /\ (now - prev_req_at[ip]) * 10 < min_interval_tenths)
                 => orig_status' = StatusTooMany]_vars

\* -------------------------------------------------------------------
\* Claims on WebSocket subscriptions
\* -------------------------------------------------------------------

\* C22: after a subscriber connects to a job, the first frame it receives is
\* the job's current status as stored by the job writer, and no job_update
\* frame comes before it.
C22_FirstFrameIsCurrentStatus ==
    \A s \in Subs :
        frames[s] # <<>> =>
            frames[s][1] = StatusFrame(WriterStatus(writer_at_connect[s]))

\* C23: when the subscription loop observes a terminal job state it sends a
\* final frame and closes the subscription: afterwards the connection is
\* registered neither in the job-indexed set nor in the connection metadata
\* map.
C23_TerminalUnregisters ==
    [][\A s \in Subs :
          (ws_pc[s] = "loop" /\ ws_pc'[s] = "returned")
              => /\ s \notin active_connections'
                 /\ s \notin connection_info']_vars

\* C24: the frames a subscriber receives for a job preserve the order in
\* which the job writer produced the updates: the progress values of its
\* status and job_update frames never decrease.
C24_FramesInOrder ==
    \A s \in Subs :
        \A i, j \in 1..Len(frames[s]) :
            (i < j /\ frames[s][i].type # "close" /\ frames[s][j].type # "close")
                => frames[s][i].progress <= frames[s][j].progress

\* -------------------------------------------------------------------
\* Claims on job completion
\* -------------------------------------------------------------------

\* C25: every job that enters the processing state eventually reaches a
\* terminal state (completed or failed); no job stays processing for ever.
C25_ProcessingTerminates ==
    \A j \in JobIds :
        (jobs[j].state = "processing") ~> (jobs[j].state \in TerminalStates)

\* -------------------------------------------------------------------
\* Claims on retention
\* -------------------------------------------------------------------

\* C26: at every time the remaining time-to-live of a job record is at most
\* the jobs-retention interval, the indices that reference it are bounded the
\* same way, and the record does not outlive the interval measured from its
\* creation.
C26_TtlWithinRetention ==
    \A j \in RetJobs :
        Alive(rec[j]) =>
            /\ rec[j].expire_at - now <= JobsRetention
            /\ rec[j].expire_at <= rec[j].created_at + JobsRetention
            /\ \A h \in RetHashes :
                  (Alive(hash_idx[h]) /\ j \in hash_idx[h].members)
                      => hash_idx[h].expire_at - now <= JobsRetention
            /\ \A u \in Owners :
                  (Alive(user_idx[u]) /\ j \in user_idx[u].members)
                      => user_idx[u].expire_at - now <= JobsRetention

\* C27: after delete_user_data(P) no job record of P and no idx:user:P
\* remains, the records of other principals are untouched, and deleted_keys
\* is the number of keys removed.
C27_UserDataDeleted ==
    [][\A p \in Owners :
          delete_user_data(p) =>
              /\ \A j \in RetJobs : ~(Alive(rec'[j]) /\ rec'[j].user_id = p)
              /\ ~Alive(user_idx'[p])
              /\ \A j \in RetJobs : rec[j].user_id # p => rec'[j] = rec[j]
              /\ del_ret'.deleted_keys = Cardinality(RedisKeys \ RedisKeys')]_vars

\* C28: a per-identifier deletion request whose identifier is neither a
\* 36-character UUID nor a 64-character hexadecimal digest is answered with
\* HTTP 400 and deletes nothing.
C28_InvalidIdentifierIs400 ==
    [][\A i \in Identifiers :
          (/\ delete_data(i)
           /\ ~(i.length = UuidLength /\ i.dash)
           /\ ~(i.length = Sha256HexLength /\ i.hex))
              => /\ gd_status' = StatusBadRequest
                 /\ UNCHANGED retVars]_vars

\* -------------------------------------------------------------------
\* Claims on the cache fallback
\* -------------------------------------------------------------------

\* C29: when Redis fails after a successful start-up, a set made during the
\* outage reports success and a following get of the key returns the value
\* that was set.
C29_SetDuringOutageFallsBack ==
    [][\A k \in CacheKeys, v \in CacheValues :
          (cm_enabled /\ ~redis_up /\ CmSet(k, v))
              => /\ cm_ret'.ret = "True"
                 /\ cache_get(k)' = ValueOf(v)]_vars

\* -------------------------------------------------------------------
\* Claims on the Vision provider call
\* -------------------------------------------------------------------

\* C30: a Vision provider call that failed (an exception, missing
\* credentials, an empty answer) is surfaced as a failure: the fallback does
\* not return a result, and in particular not the primary OCR result, in its
\* place.
C30_VisionFailureSurfaced ==
    [][/\ \A k \in ApiKeys, a \in ProviderAnswers :
            (run_vision_fallback(k, a) /\ (k # "set" \/ a # "text"))
                => vf_ret'.kind = "raised"
       /\ \A k \in ApiKeys, as \in [1..max_retries -> ProviderAnswers] :
            (process_with_vision(k, as) /\ (k = "missing" \/ \A i \in 1..max_retries : as[i] # "text"))
                => vf_ret'.kind = "raised"]_vars

\* -------------------------------------------------------------------
\* Claims on deck parsing and export
\* -------------------------------------------------------------------

\* the card lines of the input before and after the first sideboard marker,
\* as (quantity, name) entries
CardsOf(spans, lo, hi) ==
    LET idx == {i \in lo..hi : spans[i].kind = "card"}
        RECURSIVE Take(_)
        Take(i) == IF i > hi THEN <<>>
                   ELSE (IF i \in idx
                         THEN <<CardEntry(spans[i].qty, spans[i].name, "name")>>
                         ELSE <<>>) \o Take(i + 1)
    IN Take(lo)

FirstMarker(spans) ==
    IF \E i \in 1..Len(spans) : spans[i].kind = "marker"
    THEN CHOOSE i \in 1..Len(spans) :
             /\ spans[i].kind = "marker"
             /\ \A j \in 1..(i - 1) : spans[j].kind # "marker"
    ELSE Len(spans) + 1

\* C31: for combined-line input of any length without an MTGO header, every
\* entry before the first sideboard marker is emitted in main and every
\* entry after it in side, in input order with the parsed quantity and name.
C31_SectionsFollowMarker ==
    [][\A header \in {"none"}, n \in 0..MaxLines, q \in {4, 7} :
          \A p \in 0..(n + 1) :
              parse_cards(DeckSpans(header, n, p, q))
                  => LET spans == DeckSpans(header, n, p, q)
                         m == FirstMarker(spans)
                     IN /\ pd_ret'.main = CardsOf(spans, 1, m - 1)
                        /\ pd_ret'.side = CardsOf(spans, m + 1, Len(spans))]_vars

RECURSIVE SumQty(_)
SumQty(entries) == IF entries = <<>> THEN 0 ELSE Head(entries).qty + SumQty(Tail(entries))

\* the quantity the entries of a list give to one card name
QtyOfName(entries, name) ==
    SumQty(SelectSeq(entries, LAMBDA e : e.text = "name" /\ e.name = name))

\* C32: in MTGO-complete mode the redistribution keeps the entry order and
\* each card's total quantity, puts exactly min(60, total) quantity units in
\* main and the rest in side, and splits only the straddling entry into two
\* positive parts.
C32_MtgoSixtyFifteen ==
    [][\A header \in {"mtgo", "mtgo_deck"}, n \in 0..MaxLines, q \in {4, 7} :
          \A p \in 0..(n + 1) :
              parse_cards(DeckSpans(header, n, p, q))
                  => LET total == n * q
                         all == pd_ret'.main \o pd_ret'.side
                     IN /\ SumQty(pd_ret'.main) = Min(MainSize, total)
                        /\ SumQty(pd_ret'.side) = total - Min(MainSize, total)
                        /\ \A i \in 1..Len(all) : all[i].text = "name" /\ all[i].qty > 0
                        /\ \A i, j \in 1..Len(all) : i < j => all[i].name <= all[j].name
                        /\ \A c \in 1..n : QtyOfName(all, c) = q]_vars

\* the card lines of a text, in order
CardLinesOf(lines) == SelectSeq(lines, LAMBDA l : l.kind = "card")

\* C33: the tappedout-style exporter emits every main entry and every side
\* entry as "<qty>x <name>", in deck order, main lines first.
C33_TappedoutLines ==
    [][\A main \in Sections, side \in Sections :
          export_tappedout([main |-> main, side |-> side])
              => LET want == [i \in 1..(Len(main) + Len(side)) |->
                                 LET c == (main \o side)[i]
                                 IN [after_qty |-> "x", kind |-> "card",
                                     name |-> c.name, qty |-> c.qty]]
                 IN CardLinesOf(ex_ret') = want]_vars

\* C34: dynamic adjustment only tightens and stays capped: each adjustment
\* sets current_min_conf to min(0.95, old + 0.05) and current_min_lines to
\* min(20, old + 2); for every configured baseline neither threshold ever
\* decreases between resets, and neither exceeds its cap after an adjustment.
C34_AdjustOnlyTightens ==
    [][\A c \in Confidences, l \in LineCounts :
          should_use_fallback(c, l)
              => /\ current_confidence_threshold' >= current_confidence_threshold
                 /\ current_min_lines' >= current_min_lines
                 /\ FallbackRateExceeded =>
                        /\ current_confidence_threshold' =
                               Min(ConfidenceCap, current_confidence_threshold + ConfidenceStep)
                        /\ current_min_lines' = Min(LinesCap, current_min_lines + LinesStep)
                        /\ current_confidence_threshold' <= ConfidenceCap
                        /\ current_min_lines' <= LinesCap]_vars

\* the threshold comparison of should_use_fallback (circuit_breaker.py 130-134)
ThresholdsPermit(confidence, lines, min_conf, min_lines) ==
    confidence < min_conf \/ lines < min_lines

\* C35: an adjustment triggered by a fallback rate above the ceiling reduces
\* fallback use: every (confidence, lines) input that the threshold
\* comparison denied before the adjustment is also denied after it.
C35_AdjustmentNeverAdmitsMore ==
    [][\A c \in Confidences, l \in LineCounts :
          (FallbackRateExceeded /\ should_use_fallback(c, l))
              => \A c2 \in Confidences, l2 \in LineCounts :
                     ~ThresholdsPermit(c2, l2, current_confidence_threshold,
                                       current_min_lines)
                         => ~ThresholdsPermit(c2, l2, current_confidence_threshold',
                                              current_min_lines')]_vars

\* get_fallback_rate (circuit_breaker.py 85-96) as <<numerator, denominator>>;
\* 0.0 for an empty history
get_fallback_rate ==
    LET n == Len(fallback_history)
        recent_fallbacks == Cardinality({i \in 1..n : fallback_history[i][2]})
    IN IF n = 0 THEN <<0, 1>> ELSE <<recent_fallbacks, n>>

\* the fraction of used_fallback samples among the samples of a history that
\* lie within the monitoring window before t; 0 when there is none
WindowRate(history, t) ==
    LET inside == {i \in 1..Len(history) : history[i][1] > t - monitoring_window}
        used == {i \in inside : history[i][2]}
    IN IF inside = {} THEN <<0, 1>> ELSE <<Cardinality(used), Cardinality(inside)>>

SameFraction(a, b) == a[1] * b[2] = b[1] * a[2]

\* C36: at any time t, get_fallback_rate equals the fraction of used_fallback
\* samples among the samples recorded within the last monitoring window
\* before t (0 when the window holds none), and a sample older than the
\* window never contributes to a tightening decision.
C36_RateOverWindow ==
    [][/\ SameFraction(get_fallback_rate', WindowRate(fallback_history', now'))
       /\ \A c \in Confidences, l \in LineCounts :
              (should_use_fallback(c, l)
                 /\ <<current_confidence_threshold, current_min_lines>>'
                        # <<current_confidence_threshold, current_min_lines>>)
                  => LET w == WindowRate(fallback_history, now)
                     IN w[1] * 100 > fallback_rate_threshold_pct * w[2]]_vars

\* C37: the Redis-backed and the in-memory rate-limit paths decide
\* identically: for the same sequence of request times from one address
\* both return the same allowed/rejected decisions and remaining counts; a
\* rejected request is not recorded and does not prolong the time until the
\* client is allowed again.
C37_PathsDecideAlike ==
    [][PathRequest =>
          /\ path_redis' = path_memory'
          /\ ~path_redis'.allowed => Len(SelectSeq(path_zset', LAMBDA s : s = now)) = 0
          /\ ~path_memory'.allowed => Len(SelectSeq(path_times', LAMBDA s : s = now)) = 0]_vars

\* C38: after any sequence of set, delete and increment_counter operations
\* on the in-process fallback map, the map holds at most the configured cap
\* of 1000 entries.
C38_MapWithinCap == map_len <= MemoryCap

\* C39: for Bulkhead.execute under any interleaving of concurrent calls,
\* including calls whose function raises: active never exceeds
\* max_concurrent, queue_size equals the number of callers waiting for the
\* semaphore and is never negative, and both counters are 0 whenever no call
\* is in flight.
C39_BulkheadCounters ==
    /\ active <= max_concurrent
    /\ queue_size = Cardinality(Waiting)
    /\ queue_size >= 0
    /\ (Waiting = {} /\ Running = {}) => (active = 0 /\ queue_size = 0)

\* a websocket is registered for a job in active_connections
InJobSet(maps, s, j) == maps[j].present /\ s \in maps[j].members

\* the two maps agree, and active_connections holds no empty set
MapsAgree(maps, infos) ==
    /\ \A s \in Sockets :
           infos[s].present
               <=> (infos[s].job_id \in WatchedJobs /\ InJobSet(maps, s, infos[s].job_id))
    /\ \A s \in Sockets, j \in WatchedJobs :
           InJobSet(maps, s, j) => (infos[s].present /\ infos[s].job_id = j)
    /\ \A j \in WatchedJobs : maps[j].present => maps[j].members # {}

====
